---- MODULE Spec2Model ----
(***************************************************************************)
(* gulp-task-maker: registration of build/watch jobs and task groups,      *)
(* normalisation of task configs, and deferred error reporting.            *)
(*                                                                         *)
(* JavaScript strings are modelled as sequences of one-character strings,  *)
(* so that trimming, prefixes and derived task ids are computed and not    *)
(* assumed.  JavaScript values are tagged records [t, v].                  *)
(***************************************************************************)
EXTENDS Integers, Sequences, FiniteSets, TLC

VARIABLES
  options,    \* state.js: the options singleton
  scripts,    \* state.js: list of known scripts (job definitions)
  gulp,       \* gulp's task registry, in registration order
  shown,      \* feedback.js: showLoadingErrors.shown
  reports,    \* number of consolidated reports emitted through showError
  fs,         \* the source patterns that match at least one file
  api,        \* which entry point of the package is loaded
  last,       \* the last call made and how it ended
  nAdd,       \* number of add calls made
  nSet,       \* number of set calls made
  nRun,       \* number of watch jobs run
  optionsLocked,  \* shared.js: flags.optionsLocked
  tasks       \* shared.js: names of the tasks registered through load and task

vars ==
  <<options, scripts, gulp, shown, reports, fs, api, last, nAdd, nSet, nRun,
    optionsLocked, tasks>>

-----------------------------------------------------------------------------
(* Bounds of the model *)

MaxAdd == 2
MaxSet == 1
MaxRun == 2

-----------------------------------------------------------------------------
(* JavaScript values *)

Undef == [t |-> "undefined", v |-> <<>>]
Null == [t |-> "null", v |-> <<>>]
Str(s) == [t |-> "string", v |-> s]
Num(n) == [t |-> "number", v |-> n]
Bool(b) == [t |-> "boolean", v |-> b]
Arr(s) == [t |-> "array", v |-> s]
Fn(f) == [t |-> "function", v |-> f]
Obj(o) == [t |-> "object", v |-> o]

\* Array.isArray
isArray(x) == x.t = "array"

\* value != null
NotNullish(x) == x.t \notin {"undefined", "null"}

\* JavaScript truthiness
Truthy(x) ==
  CASE x.t \in {"undefined", "null"} -> FALSE
    [] x.t = "string" -> x.v # <<>>
    [] x.t = "number" -> x.v # 0
    [] x.t = "boolean" -> x.v
    [] OTHER -> TRUE

Whitespace == {" ", "\t"}

RECURSIVE trimStart(_)
trimStart(s) ==
  IF s # <<>> /\ Head(s) \in Whitespace THEN trimStart(Tail(s)) ELSE s

RECURSIVE trimEnd(_)
trimEnd(s) ==
  IF s # <<>> /\ s[Len(s)] \in Whitespace
  THEN trimEnd(SubSeq(s, 1, Len(s) - 1))
  ELSE s

\* only the leading whitespace removed
trimLeft(s) == trimStart(s)

\* String.prototype.trim
trim(s) == trimEnd(trimStart(s))

\* String.prototype.startsWith
startsWith(s, p) == Len(p) <= Len(s) /\ SubSeq(s, 1, Len(p)) = p

RECURSIVE concatAll(_)
concatAll(ss) == IF ss = <<>> THEN <<>> ELSE Head(ss) \o concatAll(Tail(ss))

Range(s) == {s[i] : i \in DOMAIN s}

\* no duplicate removed
uniqKeepAll(s) == s

\* Array.from(new Set(list)): first occurrences, in order
RECURSIVE uniq(_)
uniq(s) ==
  IF s = <<>> THEN <<>>
  ELSE LET r == uniq(SubSeq(s, 1, Len(s) - 1))
       IN IF s[Len(s)] \in Range(r) THEN r ELSE Append(r, s[Len(s)])

\* String(n) for a natural number
Digit(d) ==
  CASE d = 0 -> "0" [] d = 1 -> "1" [] d = 2 -> "2" [] d = 3 -> "3"
    [] d = 4 -> "4" [] d = 5 -> "5" [] d = 6 -> "6" [] d = 7 -> "7"
    [] d = 8 -> "8" [] OTHER -> "9"

RECURSIVE numToString(_)
numToString(n) ==
  IF n < 10 THEN <<Digit(n)>> ELSE Append(numToString(n \div 10), Digit(n % 10))

-----------------------------------------------------------------------------
(* helpers.js *)

LowerOf ==
  [c \in {"A", "B", "C", "D", "E", "F", "G", "H", "I", "J", "K", "L", "M",
          "N", "O", "P", "Q", "R", "S", "T", "U", "V", "W", "X", "Y", "Z"} |->
    CASE c = "A" -> "a" [] c = "B" -> "b" [] c = "C" -> "c" [] c = "D" -> "d"
      [] c = "E" -> "e" [] c = "F" -> "f" [] c = "G" -> "g" [] c = "H" -> "h"
      [] c = "I" -> "i" [] c = "J" -> "j" [] c = "K" -> "k" [] c = "L" -> "l"
      [] c = "M" -> "m" [] c = "N" -> "n" [] c = "O" -> "o" [] c = "P" -> "p"
      [] c = "Q" -> "q" [] c = "R" -> "r" [] c = "S" -> "s" [] c = "T" -> "t"
      [] c = "U" -> "u" [] c = "V" -> "v" [] c = "W" -> "w" [] c = "X" -> "x"
      [] c = "Y" -> "y" [] OTHER -> "z"]

\* String.prototype.toLowerCase
toLowerCase(s) ==
  [i \in DOMAIN s |-> IF s[i] \in DOMAIN LowerOf THEN LowerOf[s[i]] ELSE s[i]]

\* String(value), for the values an option or an environment variable holds
String(x) ==
  CASE x.t = "string" -> x.v
    [] x.t = "number" -> numToString(x.v)
    [] x.t = "boolean" -> IF x.v THEN <<"t", "r", "u", "e">>
                          ELSE <<"f", "a", "l", "s", "e">>
    [] x.t = "null" -> <<"n", "u", "l", "l">>
    [] OTHER -> <<"u", "n", "d", "e", "f", "i", "n", "e", "d">>

\* the letter case kept
strToBoolCaseSensitive(input, defaultValue) ==
  LET value == trim(String(input))
  IN IF value \in {<<"1">>, <<"t", "r", "u", "e">>, <<"o", "n">>, <<"y", "e", "s">>}
     THEN TRUE
     ELSE IF value \in {<<"0">>, <<"f", "a", "l", "s", "e">>, <<"o", "f", "f">>,
                        <<"n", "o">>}
          THEN FALSE
          ELSE defaultValue

strToBool(input, defaultValue) ==
  LET value == toLowerCase(trim(String(input)))
  IN IF value \in {<<"1">>, <<"t", "r", "u", "e">>, <<"o", "n">>, <<"y", "e", "s">>}
     THEN TRUE
     ELSE IF value \in {<<"0">>, <<"f", "a", "l", "s", "e">>, <<"o", "f", "f">>,
                        <<"n", "o">>}
          THEN FALSE
          ELSE defaultValue

\* value !== null && typeof value === 'object' (arrays are objects)
isObject(x) == x.t \in {"object", "array"}

toObjectArray(input) ==
  LET list == IF isArray(input) THEN input.v ELSE <<input>>
  IN SelectSeq(list, isObject)

toUniqueStrings(input) ==
  LET items == IF isArray(input) THEN input.v ELSE <<input>>
      mapped == [i \in DOMAIN items |->
                  IF items[i].t = "string" THEN trim(items[i].v) ELSE <<>>]
      list == SelectSeq(mapped, LAMBDA el : el # <<>>)
  IN IF Len(list) > 1 THEN uniq(list) ELSE list

-----------------------------------------------------------------------------
(* feedback.js, tools.js: error policy of the add API *)

\* tools.js showError: throw in strict mode, log otherwise
showError(strict) == IF strict THEN "thrown" ELSE "logged"

\* feedback.js handleError: what becomes of an error given a store or not
handleError(hasStore, strict) ==
  IF hasStore THEN "stored" ELSE showError(strict)

-----------------------------------------------------------------------------
(* add.js: config normalisation *)

\* an array of strings
strings(list) == Arr([i \in DOMAIN list |-> Str(list[i])])

NoFields == [src |-> Undef, dest |-> Undef, watch |-> Undef, name |-> Undef]

Fields(x) == IF x.t = "object" THEN x.v ELSE NoFields

\* Object.assign({}, baseConfig, config)
assign(base, config) ==
  [k \in DOMAIN NoFields |->
    IF Fields(config)[k] # Undef THEN Fields(config)[k] ELSE Fields(base)[k]]

\* the check of a src that was given
srcErrorNever(given, src) == <<>>

srcError(given, src) == IF given /\ src.v = <<>> THEN <<"src">> ELSE <<>>

\* normalizeConfig: the errors found and the config or the error it leaves
checkConfig(merged, src, newWatch, name) ==
  LET errors ==
        (IF NotNullish(merged.dest) /\ merged.dest.t \notin {"string", "function"}
         THEN <<"dest">> ELSE <<>>)
        \o srcError(NotNullish(merged.src), src)
        \o (IF ~(merged.watch.t = "boolean" /\ merged.watch.v)
               /\ Truthy(merged.watch) /\ newWatch.v = <<>>
            THEN <<"watch">> ELSE <<>>)
  IN [ok |-> errors = <<>>,
      cfg |-> [merged EXCEPT !.src = src, !.watch = newWatch],
      error |-> [type |-> "InvalidConfig", task |-> name, props |-> errors]]

\* watch: true replaced by the src as it was given
normalizeWatchRaw(merged, src, name) ==
  checkConfig(
    merged, src,
    IF merged.watch.t = "boolean" /\ merged.watch.v
    THEN IF isArray(merged.src) THEN merged.src ELSE Arr(<<merged.src>>)
    ELSE IF Truthy(merged.watch) THEN strings(toUniqueStrings(merged.watch))
         ELSE merged.watch,
    name)

\* normalizeConfig: the watch property, once src is normalized
normalizeWatch(merged, src, name) ==
  checkConfig(
    merged, src,
    IF merged.watch.t = "boolean" /\ merged.watch.v
    THEN IF isArray(src) /\ Len(src.v) > 0 THEN Arr(src.v) ELSE merged.watch
    ELSE IF Truthy(merged.watch) THEN strings(toUniqueStrings(merged.watch))
         ELSE merged.watch,
    name)

\* normalizeConfig: the src property of the merged config
normalizeMerged(merged, name) ==
  normalizeWatch(
    merged,
    IF NotNullish(merged.src) THEN strings(toUniqueStrings(merged.src))
    ELSE merged.src,
    name)

normalizeConfig(config, data) ==
  normalizeMerged(assign(data.callback.baseConfig, config), data.name)

-----------------------------------------------------------------------------
(* add.js: gulp tasks *)

TaskIds(g) == {g[i].id : i \in DOMAIN g}

TaskAt(g, id) == g[CHOOSE i \in DOMAIN g : g[i].id = id]

\* gulp.task(name, fn): a new name is appended, a known name is overwritten
gulpTask(g, rec) ==
  IF rec.id \in TaskIds(g)
  THEN [i \in DOMAIN g |-> IF g[i].id = rec.id THEN rec ELSE g[i]]
  ELSE Append(g, rec)

\* gulp.tree({ deep: false }).nodes
getTaskNames(g) == [i \in DOMAIN g |-> g[i].id]

Job(id, kind, data, i) ==
  [id |-> id, kind |-> kind, owner |-> data.name, cb |-> data.callback.id,
   idx |-> i, children |-> <<>>, from |-> "config"]

\* the index appended without the + 1
taskIdOfZeroBased(name, normalizedConfigs, index) ==
  LET config == normalizedConfigs[index + 1]
  IN IF config.name.t = "string" THEN name \o <<"_">> \o trim(config.name.v)
     ELSE IF Len(normalizedConfigs) > 1 THEN name \o <<"_">> \o numToString(index)
     ELSE name

\* the task name of the config at 0-based position index
taskIdOf(name, normalizedConfigs, index) ==
  LET config == normalizedConfigs[index + 1]
  IN IF config.name.t = "string" THEN name \o <<"_">> \o trim(config.name.v)
     ELSE IF Len(normalizedConfigs) > 1 THEN name \o <<"_">> \o numToString(index + 1)
     ELSE name

hasWatch(config) == isArray(config.watch) /\ Len(config.watch.v) > 0

\* the gulp.task calls of defineTasksForConfig, in order
RECURSIVE tasksForConfig(_, _, _)
tasksForConfig(taskData, opts, index) ==
  IF index >= Len(taskData.normalizedConfigs) THEN <<>>
  ELSE LET config == taskData.normalizedConfigs[index + 1]
           taskId == taskIdOf(taskData.name, taskData.normalizedConfigs, index)
           buildId == opts.prefix.build \o taskId
           watchId == opts.prefix.watch \o taskId
       IN <<Job(buildId, "build", taskData, index + 1)>>
          \o (IF hasWatch(config)
              THEN <<Job(watchId, "watch", taskData, index + 1)>> ELSE <<>>)
          \o tasksForConfig(taskData, opts, index + 1)

RECURSIVE registerAll(_, _)
registerAll(g, recs) ==
  IF recs = <<>> THEN g ELSE registerAll(gulpTask(g, Head(recs)), Tail(recs))

defineTasksForConfig(g, taskData, opts) ==
  registerAll(g, tasksForConfig(taskData, opts, 0))

\* a group predicate applied to a task name
applyPredicate(tag, name, opts) ==
  CASE tag = "notWatch" -> ~startsWith(name, opts.prefix.watch)
    [] tag = "isBuild" -> startsWith(name, opts.prefix.build)
    [] tag = "isWatch" -> startsWith(name, opts.prefix.watch)
    [] OTHER -> TRUE

Letters ==
  DOMAIN LowerOf \cup {LowerOf[c] : c \in DOMAIN LowerOf}

\* key.trim().replace(/[^a-z]+/gi, '')
groupName(key) == SelectSeq(trim(key), LAMBDA c : c \in Letters)

\* groups: the [name, value] pairs built from options.groups
groupPairs(opts) ==
  [i \in DOMAIN opts.groups |->
    Arr(<<Str(groupName(opts.groups[i].key)), opts.groups[i].value>>)]

\* Array.prototype.includes (SameValueZero; an array equals only itself)
includes(list, x) ==
  \E i \in DOMAIN list : list[i].t = x.t /\ x.t # "array" /\ list[i] = x

groupChildren(value, gulpTasks, groups, opts) ==
  IF isArray(value) THEN [i \in DOMAIN value.v |-> String(value.v[i])]
  ELSE LET matched == SelectSeq(gulpTasks,
                                LAMBDA n : applyPredicate(value.v, n, opts))
       IN SelectSeq(matched, LAMBDA child : ~includes(groups, Str(child)))

Group(name, value, children) ==
  [id |-> name, kind |-> IF children = <<>> THEN "emptygroup" ELSE "group",
   owner |-> <<>>, cb |-> 0, idx |-> 0, children |-> children,
   from |-> IF isArray(value) THEN "list" ELSE "predicate"]

RECURSIVE defineGroups(_, _, _, _, _)
defineGroups(g, gulpTasks, groups, opts, i) ==
  IF i > Len(groups) THEN g
  ELSE LET name == groups[i].v[1].v
           value == groups[i].v[2]
       IN IF isArray(value) \/ value.t = "function"
          THEN defineGroups(
                 gulpTask(g, Group(name, value,
                                   groupChildren(value, gulpTasks, groups, opts))),
                 gulpTasks, groups, opts, i + 1)
          ELSE defineGroups(g, gulpTasks, groups, opts, i + 1)

defineTaskGroups(g, opts) ==
  defineGroups(g, getTaskNames(g), groupPairs(opts), opts, 1)

-----------------------------------------------------------------------------
(* add.js: the callback and the add method *)

Cwd == <<"/", "p">>

endsWith(s, p) == Len(p) <= Len(s) /\ SubSeq(s, Len(s) - Len(p) + 1, Len(s)) = p

\* path.isAbsolute
isAbsolute(id) == startsWith(id, <<"/">>)

\* path.join(process.cwd(), id), for ids without '..' segments
RECURSIVE pathJoin(_, _)
pathJoin(dir, id) ==
  IF startsWith(id, <<".", "/">>) THEN pathJoin(dir, SubSeq(id, 3, Len(id)))
  ELSE dir \o <<"/">> \o id

\* the module id given to require
resolveId(id) ==
  IF (startsWith(id, <<".", "/">>) \/ startsWith(id, <<".", ".", "/">>)
      \/ endsWith(id, <<".", "j", "s">>)
      \/ ("/" \in Range(id) /\ ~startsWith(id, <<"@">>)))
     /\ ~isAbsolute(id)
  THEN pathJoin(Cwd, id)
  ELSE id

NoCallback ==
  [id |-> 0, name |-> Undef, displayName |-> Undef, baseConfig |-> Undef,
   defaultConfig |-> Undef]

\* the modules that exist: /p/t exports a function named t, /p/n an object
require(id) ==
  CASE id = <<"/", "p", "/", "t">> ->
         [ok |-> TRUE,
          value |-> Fn([NoCallback EXCEPT !.id = 4, !.name = Str(<<"t">>)])]
    [] id = <<"/", "p", "/", "n">> -> [ok |-> TRUE, value |-> Obj(NoFields)]
    [] OTHER -> [ok |-> FALSE, value |-> Undef]

\* getTaskCallback: a module must export a function
loadModule(loaded) ==
  IF loaded.ok /\ loaded.value.t = "function" THEN loaded
  ELSE [ok |-> FALSE, value |-> Undef]

\* getTaskCallback: the callback must have a displayName or a name
checkCallbackName(result) ==
  IF ~result.ok THEN [ok |-> FALSE, fn |-> NoCallback]
  ELSE IF result.value.v.displayName.t # "string" /\ result.value.v.name.t # "string"
       THEN [ok |-> FALSE, fn |-> NoCallback]
       ELSE [ok |-> TRUE, fn |-> result.value.v]

getTaskCallback(callback) ==
  checkCallbackName(
    IF callback.t = "function" THEN [ok |-> TRUE, value |-> callback]
    ELSE IF callback.t = "string"
         THEN loadModule(require(resolveId(trim(callback.v))))
         ELSE [ok |-> FALSE, value |-> Undef])

\* callback.displayName || callback.name
callbackName(fn) == IF Truthy(fn.displayName) THEN fn.displayName.v ELSE fn.name.v

\* no definition ever found
FindScriptNone(list, name) == 0

FindScript(list, name) ==
  IF \E i \in DOMAIN list : list[i].name = name
  THEN CHOOSE i \in DOMAIN list : list[i].name = name /\
         \A j \in DOMAIN list : list[j].name = name => i <= j
  ELSE 0

NewData(name, fn) ==
  [name |-> name, callback |-> fn, configs |-> <<>>, normalizedConfigs |-> <<>>,
   errors |-> <<>>, sources |-> <<>>]

\* conf.src of every normalized config, concatenated (a missing src adds undefined)
RECURSIVE srcOf(_)
srcOf(normalizedConfigs) ==
  IF normalizedConfigs = <<>> THEN <<>>
  ELSE (IF isArray(Head(normalizedConfigs).src) THEN Head(normalizedConfigs).src.v
        ELSE <<Head(normalizedConfigs).src>>)
       \o srcOf(Tail(normalizedConfigs))

\* the sources of the configs of this call only
saveDataLatestSources(data, configs, results, strict) ==
  LET good == SelectSeq(results, LAMBDA r : r.ok)
      bad == SelectSeq(results, LAMBDA r : ~r.ok)
      normalizedConfigs == [i \in DOMAIN good |-> good[i].cfg]
  IN [data EXCEPT
        !.errors = IF handleError(~strict, strict) = "stored"
                   THEN data.errors \o [i \in DOMAIN bad |-> bad[i].error]
                   ELSE data.errors,
        !.configs = data.configs \o configs,
        !.normalizedConfigs = data.normalizedConfigs \o normalizedConfigs,
        !.sources = toUniqueStrings(Arr(srcOf(normalizedConfigs)))]

\* only the raw configs that passed normalizeConfig saved
saveDataKeepingValid(data, configs, results, strict) ==
  LET good == SelectSeq(results, LAMBDA r : r.ok)
      bad == SelectSeq(results, LAMBDA r : ~r.ok)
      normalizedConfigs == [i \in DOMAIN good |-> good[i].cfg]
  IN [data EXCEPT
        !.errors = IF handleError(~strict, strict) = "stored"
                   THEN data.errors \o [i \in DOMAIN bad |-> bad[i].error]
                   ELSE data.errors,
        !.configs = data.configs \o normalizedConfigs,
        !.normalizedConfigs = data.normalizedConfigs \o normalizedConfigs,
        !.sources = toUniqueStrings(
                      Arr(strings(data.sources).v \o srcOf(normalizedConfigs)))]

\* addTasks, "Save data": the job definition with the new configs added
saveData(data, configs, results, strict) ==
  LET good == SelectSeq(results, LAMBDA r : r.ok)
      bad == SelectSeq(results, LAMBDA r : ~r.ok)
      normalizedConfigs == [i \in DOMAIN good |-> good[i].cfg]
  IN [data EXCEPT
        !.errors = IF handleError(~strict, strict) = "stored"
                   THEN data.errors \o [i \in DOMAIN bad |-> bad[i].error]
                   ELSE data.errors,
        !.configs = data.configs \o configs,
        !.normalizedConfigs = data.normalizedConfigs \o normalizedConfigs,
        !.sources = toUniqueStrings(
                      Arr(strings(data.sources).v \o srcOf(normalizedConfigs)))]

\* addTasks, the end: the data saved, the gulp tasks and the groups defined
addSaved(saved, list, at, g, opts) ==
  [scripts |-> [list EXCEPT ![at] = saved],
   gulp |-> defineTaskGroups(defineTasksForConfig(g, saved, opts), opts),
   outcome |-> "ok", name |-> saved.name, reached |-> TRUE]

\* addTasks, once every config went through normalizeConfig
addNormalized(results, configs, list, at, g, opts) ==
  IF (\E i \in DOMAIN results : ~results[i].ok)
     /\ handleError(~opts.strict, opts.strict) = "thrown"
  THEN [scripts |-> list, gulp |-> g, outcome |-> "thrown",
        name |-> list[at].name, reached |-> FALSE]
  ELSE addSaved(saveData(list[at], configs, results, opts.strict), list, at, g, opts)

\* addTasks, "Validate and merge configs", for the script at position at
addConfigs(configs, list, at, g, opts) ==
  IF configs = <<>>
  THEN [scripts |-> list, gulp |-> g, outcome |-> handleError(FALSE, opts.strict),
        name |-> list[at].name, reached |-> FALSE]
  ELSE addNormalized([i \in DOMAIN configs |-> normalizeConfig(configs[i], list[at])],
                     configs, list, at, g, opts)

\* addTasks, "Retrieve or create task data"
addNamed(cbName, fn, configs, list, g, opts) ==
  IF FindScript(list, cbName) = 0
  THEN addConfigs(configs, Append(list, NewData(cbName, fn)), Len(list) + 1, g, opts)
  ELSE addConfigs(configs, list, FindScript(list, cbName), g, opts)

\* addTasks, once getTaskCallback returned or threw
addCallback(got, configs, list, g, opts) ==
  IF ~got.ok
  THEN [scripts |-> list, gulp |-> g, outcome |-> handleError(FALSE, opts.strict),
        name |-> <<>>, reached |-> FALSE]
  ELSE addNamed(callbackName(got.fn), got.fn, configs, list, g, opts)

\* addTasks of add.js: the registry, the gulp tasks and the outcome it leaves
addTasks(callbackMixed, configsMixed, list, g, opts) ==
  addCallback(getTaskCallback(callbackMixed), toObjectArray(configsMixed), list, g, opts)

-----------------------------------------------------------------------------
(* state.js: options and the set method *)

sBuild == <<"b", "u", "i", "l", "d">>
sWatch == <<"w", "a", "t", "c", "h">>

\* state.js, first revision: no build prefix, build = whatever is no watch task
OptionsA(env) ==
  [debug |-> FALSE,
   notify |-> strToBool(env.GTM_NOTIFY, TRUE),
   parallel |-> strToBool(env.GTM_PARALLEL, TRUE),
   strict |-> strToBool(env.GTM_STRICT, FALSE),
   prefix |-> [build |-> <<>>, watch |-> sWatch \o <<"_">>],
   groups |-> <<[key |-> sBuild, value |-> Fn("notWatch")],
                [key |-> sWatch, value |-> Fn("isWatch")]>>]

\* state.js, second revision: 'build:' and 'watch:' prefixes
OptionsB(env) ==
  [debug |-> strToBool(env.GTM_DEBUG, FALSE),
   notify |-> strToBool(env.GTM_NOTIFY, TRUE),
   parallel |-> strToBool(env.GTM_PARALLEL, TRUE),
   strict |-> strToBool(env.GTM_STRICT, FALSE),
   prefix |-> [build |-> sBuild \o <<":">>, watch |-> sWatch \o <<":">>],
   groups |-> <<[key |-> sBuild, value |-> Fn("isBuild")],
                [key |-> sWatch, value |-> Fn("isWatch")]>>]

\* value.trim().replace(/\s+/g, '-')
RECURSIVE dashes(_)
dashes(s) ==
  IF s = <<>> THEN <<>>
  ELSE IF Head(s) \in Whitespace
       THEN <<"-">> \o dashes(trimStart(s))
       ELSE <<Head(s)>> \o dashes(Tail(s))

setFlag(old, value) ==
  IF value.t = "boolean" THEN value.v
  ELSE IF NotNullish(value) THEN strToBool(value, FALSE)
  ELSE old

setPrefix(old, prefix, name) ==
  IF isObject(prefix) /\ prefix.t = "object" /\ prefix.v[name].t = "string"
  THEN dashes(trim(prefix.v[name].v))
  ELSE old

\* options.groups[name] = value, keeping the position of a known key
putGroup(groups, key, value) ==
  IF \E i \in DOMAIN groups : groups[i].key = key
  THEN [i \in DOMAIN groups |->
         IF groups[i].key = key THEN [key |-> key, value |-> value] ELSE groups[i]]
  ELSE Append(groups, [key |-> key, value |-> value])

RECURSIVE setGroups(_, _)
setGroups(groups, input) ==
  IF input = <<>> THEN groups
  ELSE LET value == Head(input).value
           next == IF value.t = "function" \/ isArray(value)
                   THEN putGroup(groups, Head(input).key, value)
                   ELSE IF ~Truthy(value)
                        THEN putGroup(groups, Head(input).key, Null)
                        ELSE groups
       IN setGroups(next, Tail(input))

\* setOptions applied to an object input
setOptions(opts, input) ==
  [debug |-> setFlag(opts.debug, input.debug),
   notify |-> setFlag(opts.notify, input.notify),
   parallel |-> setFlag(opts.parallel, input.parallel),
   strict |-> setFlag(opts.strict, input.strict),
   prefix |-> [build |-> setPrefix(opts.prefix.build, input.prefix, "build"),
               watch |-> setPrefix(opts.prefix.watch, input.prefix, "watch")],
   groups |-> IF input.groups.t = "object" THEN setGroups(opts.groups, input.groups.v)
              ELSE opts.groups]

-----------------------------------------------------------------------------
(* The calls a gulpfile makes *)

NoInput ==
  [debug |-> Undef, notify |-> Undef, parallel |-> Undef, strict |-> Undef,
   prefix |-> Undef, groups |-> Undef]

SetInputs ==
  { Obj([NoInput EXCEPT !.prefix =
           Obj([build |-> Str(<<" ", "b", " ", "_">>), watch |-> Num(1)])]),
    Obj([NoInput EXCEPT !.strict = Str(<<"Y", "e", "s">>), !.notify = Bool(FALSE),
                        !.parallel = Num(0)]),
    Obj([NoInput EXCEPT !.groups =
           Obj(<<[key |-> <<"a", "l", "l">>, value |-> Fn("all")],
                 [key |-> sWatch, value |-> Bool(FALSE)]>>)]),
    Num(1) }

fnA == [NoCallback EXCEPT !.id = 1, !.name = Str(<<"a">>)]

fnB ==
  [NoCallback EXCEPT
     !.id = 2, !.name = Str(<<"f">>), !.displayName = Str(<<"b">>),
     !.baseConfig = Obj([NoFields EXCEPT !.dest = Str(<<"o">>), !.watch = Bool(TRUE)]),
     !.defaultConfig = Obj([NoFields EXCEPT !.dest = Str(<<"o">>), !.watch = Bool(TRUE)])]

\* another function that is also called a
fnA2 == [fnA EXCEPT !.id = 3]

\* a function whose name is the id of the first of several configs of a
fnA1 == [NoCallback EXCEPT !.id = 5, !.name = Str(<<"a", "_", "1">>)]

\* an anonymous function: its name is the empty string
fnAnon == [NoCallback EXCEPT !.id = 6, !.name = Str(<<>>)]

cfgPlain == Obj([NoFields EXCEPT !.src = Str(<<"x">>), !.dest = Str(<<"o">>)])

cfgWatch ==
  Obj([NoFields EXCEPT
         !.src = Arr(<<Str(<<" ", "x">>), Str(<<"x">>), Num(1), Str(<<"y">>)>>),
         !.dest = Str(<<"o">>), !.watch = Bool(TRUE)])

cfgNamed ==
  Obj([NoFields EXCEPT !.src = Str(<<"y">>), !.dest = Fn("dest"),
                       !.watch = Str(<<"y", " ">>), !.name = Str(<<" ", "n">>)])

cfgEmptySrc == Obj([NoFields EXCEPT !.src = Arr(<<>>), !.dest = Str(<<"o">>)])

cfgBadBoth == Obj([NoFields EXCEPT !.src = Arr(<<Str(<<" ">>)>>), !.dest = Num(5)])

cfgBare == Obj(NoFields)

AddInputs ==
  { <<Fn(fnA), cfgPlain>>,
    <<Fn(fnA), cfgWatch>>,
    <<Fn(fnA), Arr(<<cfgPlain, cfgNamed>>)>>,
    <<Fn(fnA), Arr(<<cfgEmptySrc, cfgWatch>>)>>,
    <<Fn(fnA), cfgBadBoth>>,
    <<Fn(fnA), cfgBare>>,
    <<Fn(fnA), Num(1)>>,
    <<Fn(fnB), Obj([NoFields EXCEPT !.src = Str(<<"x">>)])>>,
    <<Fn(fnA2), cfgNamed>>,
    <<Fn(fnA1), cfgPlain>>,
    <<Fn(fnAnon), cfgPlain>>,
    <<Str(<<".", "/", "t">>), cfgPlain>>,
    <<Str(<<"z">>), cfgPlain>>,
    <<Num(1), cfgPlain>> }

Env == { [GTM_DEBUG |-> Undef, GTM_NOTIFY |-> Undef, GTM_PARALLEL |-> Undef,
          GTM_STRICT |-> s] : s \in {Undef, Str(<<"1">>)} }

NoCall ==
  [op |-> "init", outcome |-> "ok", cb |-> Undef, cfg |-> Undef, name |-> <<>>,
   reached |-> FALSE, again |-> FALSE, added |-> 0]

\* the number of normalized configs the script called name holds in the list
keptBy(list, name) ==
  IF \E k \in DOMAIN list : list[k].name = name
  THEN Len(list[CHOOSE k \in DOMAIN list : list[k].name = name].normalizedConfigs)
  ELSE 0

Init ==
  /\ api = "add"
  /\ options \in {OptionsA(e) : e \in Env} \cup {OptionsB(e) : e \in Env}
  /\ scripts = <<>>
  /\ gulp = <<>>
  /\ shown = FALSE
  /\ reports = 0
  /\ fs = {}
  /\ last = NoCall
  /\ nAdd = 0
  /\ nSet = 0
  /\ nRun = 0
  /\ optionsLocked = FALSE
  /\ tasks = <<>>

\* gtm.add(callback, configs)
Add ==
  /\ nAdd < MaxAdd
  /\ \E in \in AddInputs :
       \E r \in {addTasks(in[1], in[2], scripts, gulp, options)} :
          /\ scripts' = r.scripts
          /\ gulp' = r.gulp
          /\ last' = [op |-> "add", outcome |-> r.outcome, cb |-> in[1],
                      cfg |-> in[2], name |-> r.name, reached |-> r.reached,
                      again |-> last.op = "add" /\ last.cb = in[1] /\ last.cfg = in[2],
                      added |-> keptBy(r.scripts, r.name) - keptBy(scripts, r.name)]
  /\ nAdd' = nAdd + 1
  /\ UNCHANGED <<options, shown, reports, fs, api, nSet, nRun,
               optionsLocked, tasks>>

\* gtm.set(input)
Set ==
  /\ nSet < MaxSet
  /\ \E in \in SetInputs :
       /\ options' = IF isObject(in) THEN setOptions(options, in.v) ELSE options
       /\ last' = [op |-> "set", outcome |-> IF isObject(in) THEN "ok" ELSE "thrown",
                   cb |-> in, cfg |-> Undef, name |-> <<>>, reached |-> FALSE,
                   again |-> FALSE, added |-> 0]
  /\ nSet' = nSet + 1
  /\ UNCHANGED <<scripts, gulp, shown, reports, fs, api, nAdd, nRun,
               optionsLocked, tasks>>

Next == Add \/ Set

Spec == Init /\ [][Next]_vars

-----------------------------------------------------------------------------
(* index.js and register.js of the add/options/done revision *)

Digits == {"0", "1", "2", "3", "4", "5", "6", "7", "8", "9"}

DigitValue(c) == CHOOSE d \in 0..9 : Digit(d) = c

RECURSIVE parseNat(_)
parseNat(s) ==
  IF s = <<>> THEN 0
  ELSE 10 * parseNat(SubSeq(s, 1, Len(s) - 1)) + DigitValue(s[Len(s)])

\* inherited properties of an array that a callback name may spell
ArrayProps ==
  { <<"l", "e", "n", "g", "t", "h">>, <<"p", "u", "s", "h">>, <<"p", "o", "p">>,
    <<"m", "a", "p">>, <<"f", "i", "n", "d">>, <<"s", "o", "m", "e">>,
    <<"s", "o", "r", "t">> }

\* scripts[name] on the scripts array: the position of the element it names,
\* 0 for a value without an errors list, -1 for undefined
scriptsAt(list, name) ==
  IF name # <<>> /\ Range(name) \subseteq Digits /\ (Len(name) = 1 \/ name[1] # "0")
  THEN IF parseNat(name) < Len(list) THEN parseNat(name) + 1 ELSE -1
  ELSE IF name \in ArrayProps THEN 0 ELSE -1

\* helpers.js loadScript: require(scriptId), which must export a function
loadScript(scriptId) ==
  IF require(scriptId).ok /\ require(scriptId).value.t = "function"
  THEN require(scriptId)
  ELSE [ok |-> FALSE, value |-> Undef]

\* register.js normalizeSrc: the watch property, once src is normalized
normalizeSrcWatch(conf, src) ==
  [conf EXCEPT !.src = src,
               !.watch = IF conf.watch.t = "boolean" /\ conf.watch.v THEN src
                         ELSE strings(toUniqueStrings(conf.watch))]

\* register.js normalizeSrc
normalizeSrc(conf) == normalizeSrcWatch(conf, strings(toUniqueStrings(conf.src)))

\* register.js validateConfig: the properties found invalid
invalidProps(conf) ==
  (IF conf.dest.t # "string" THEN <<"dest">> ELSE <<>>)
  \o (IF ~isArray(conf.src) \/ Len(conf.src.v) = 0 THEN <<"src">> ELSE <<>>)

\* register.js validateConfig over the merged configs, in order: the configs
\* kept, the script list with the errors stored, and whether a call threw
RECURSIVE validateAll(_, _, _, _, _)
validateAll(name, confs, list, strict, acc) ==
  IF confs = <<>> THEN [kept |-> acc, scripts |-> list, outcome |-> "ok"]
  ELSE LET conf == Head(confs)
           props == invalidProps(conf)
           at == scriptsAt(list, name)
           err == [type |-> "InvalidConfig", task |-> name, props |-> props]
       IN IF props = <<>>
          THEN validateAll(name, Tail(confs), list, strict, Append(acc, conf))
          ELSE IF ~strict /\ at = -1
          THEN [kept |-> acc, scripts |-> list, outcome |-> "thrown"]
          ELSE IF handleError(~strict /\ at > 0, strict) = "thrown"
          THEN [kept |-> acc, scripts |-> list, outcome |-> "thrown"]
          ELSE validateAll(
                 name, Tail(confs),
                 IF ~strict /\ at > 0
                 THEN [list EXCEPT ![at].errors = Append(@, err)] ELSE list,
                 strict, acc)

\* register.js normalizeUserConfig
normalizeUserConfig(name, baseConfig, userConfigs, list, strict) ==
  validateAll(name,
              [i \in DOMAIN userConfigs |->
                normalizeSrc(assign(baseConfig, userConfigs[i]))],
              list, strict, <<>>)

\* the task name registerTasks gives the config at 0-based position index
taskIdIn(name, normalized, configs, index) ==
  LET config == normalized[index + 1]
  IN IF config.name.t = "string" THEN name \o <<"_">> \o trim(config.name.v)
     ELSE IF Len(configs) > 1 THEN name \o <<"_">> \o numToString(index + 1)
     ELSE name

\* register.js defineGulpTask for every normalized config
RECURSIVE defineGulpTasks(_, _, _, _)
defineGulpTasks(g, data, opts, index) ==
  IF index >= Len(data.normalizedConfigs) THEN g
  ELSE LET config == data.normalizedConfigs[index + 1]
           taskId == taskIdIn(data.name, data.normalizedConfigs, data.configs, index)
           g1 == gulpTask(g, Job(opts.prefix.build \o taskId, "build", data, index + 1))
           g2 == IF hasWatch(config)
                 THEN gulpTask(g1, Job(opts.prefix.watch \o taskId, "watch", data,
                                       index + 1))
                 ELSE g1
       IN defineGulpTasks(g2, data, opts, index + 1)

\* register.js registerTasks: the sources saved and the gulp tasks defined
defineRegistered(saved, list, at, g, opts) ==
  [scripts |-> [list EXCEPT ![at] = saved],
   gulp |-> defineGulpTasks(g, saved, opts, 0),
   outcome |-> "ok"]

\* register.js registerTasks, once normalizeUserConfig returned or threw
registerChecked(checked, at, g, opts) ==
  IF checked.outcome = "thrown"
  THEN [scripts |-> checked.scripts, gulp |-> g, outcome |-> "thrown"]
  ELSE IF checked.kept = <<>>
  THEN [scripts |-> [checked.scripts EXCEPT ![at].normalizedConfigs = <<>>],
        gulp |-> g, outcome |-> "thrown"]
  ELSE defineRegistered(
         [checked.scripts[at] EXCEPT
            !.normalizedConfigs = checked.kept,
            !.sources = uniq(concatAll([i \in DOMAIN checked.kept |->
                                         [j \in DOMAIN checked.kept[i].src.v |->
                                           checked.kept[i].src.v[j].v]]))],
         checked.scripts, at, g, opts)

\* register.js registerTasks for the script at position at of the list
registerTasks(list, at, g, opts) ==
  registerChecked(
    normalizeUserConfig(list[at].name, list[at].callback.defaultConfig,
                        list[at].configs, list, opts.strict),
    at, g, opts)

\* index.js addTasks, once the script is saved in the list
addRegistered(done, name) ==
  [scripts |-> done.scripts, gulp |-> done.gulp, outcome |-> done.outcome,
   name |-> name, reached |-> done.outcome = "ok"]

\* index.js addTasks, once the name of the callback is known
addNamedIndex(name, fn, configs, list, g, opts) ==
  IF name.t # "string"
  THEN [scripts |-> list, gulp |-> g, outcome |-> handleError(FALSE, opts.strict),
        name |-> <<>>, reached |-> FALSE]
  ELSE IF \E k \in DOMAIN list : list[k].name = name.v
  THEN [scripts |-> list, gulp |-> g, outcome |-> handleError(FALSE, opts.strict),
        name |-> name.v, reached |-> FALSE]
  ELSE IF configs = <<>>
  THEN [scripts |->
          Append(list,
                 [NewData(name.v, fn) EXCEPT
                    !.errors = <<[type |-> "MissingConfig", task |-> name.v,
                                  props |-> <<>>]>>]),
        gulp |-> g, outcome |-> handleError(TRUE, opts.strict),
        name |-> name.v, reached |-> FALSE]
  ELSE addRegistered(
         registerTasks(Append(list, [NewData(name.v, fn) EXCEPT !.configs = configs]),
                       Len(list) + 1, g, opts),
         name.v)

\* index.js addTasks, once the callback is loaded or the load failed
addCallbackIndex(fn, configs, list, g, opts) ==
  IF fn = NoCallback
  THEN [scripts |-> list, gulp |-> g, outcome |-> handleError(FALSE, opts.strict),
        name |-> <<>>, reached |-> FALSE]
  ELSE addNamedIndex(IF Truthy(fn.displayName) THEN fn.displayName ELSE fn.name,
                     fn, configs, list, g, opts)

\* index.js addTasks
addTasksIndex(callback, configs, list, g, opts) ==
  addCallbackIndex(
    IF callback.t = "function" THEN callback.v
    ELSE IF callback.t = "string" /\ loadScript(trim(callback.v)).ok
         THEN loadScript(trim(callback.v)).value.v
         ELSE NoCallback,
    toObjectArray(configs), list, g, opts)

\* index.js setOptions: strict, notify and parallel, prefix, groups
setOptionsIndex(opts, input) ==
  [setOptions(opts, input) EXCEPT !.debug = opts.debug]

\* register.js registerTaskGroups
RECURSIVE registerGroups(_, _, _, _)
registerGroups(g, taskNames, opts, i) ==
  IF i > Len(opts.groups) THEN g
  ELSE LET value == opts.groups[i].value
           name == groupName(opts.groups[i].key)
           children ==
             IF isArray(value)
             THEN LET kept == SelectSeq(value.v, LAMBDA x : x.t = "string")
                  IN [k \in DOMAIN kept |-> kept[k].v]
             ELSE SelectSeq(taskNames, LAMBDA n : applyPredicate(value.v, n, opts))
       IN IF isArray(value) \/ value.t = "function"
          THEN registerGroups(gulpTask(g, Group(name, value, children)),
                              taskNames, opts, i + 1)
          ELSE registerGroups(g, taskNames, opts, i + 1)

registerTaskGroups(g, opts) == registerGroups(g, getTaskNames(g), opts, 1)

\* the task of an empty group that says nothing and completes
emptyGroupTaskSilent(strict) == [outcome |-> "ok", done |-> TRUE]

\* register.js defineGroupTask, the task of a group without children:
\* handleError(new Error("No tasks found ...")) and then done()
emptyGroupTask(strict) ==
  [outcome |-> handleError(FALSE, strict),
   done |-> handleError(FALSE, strict) # "thrown"]

\* feedback.js showLoadingErrors: the tasks the report would name
failedTasks(list, files) ==
  SelectSeq(list, LAMBDA data :
    \/ \E s \in Range(data.sources) : s \notin files
    \/ data.errors # <<>>)

\* the report shown whenever a task has failed, the flag not looked at
showLoadingErrorsUnguarded(list, files, wasShown, count, strict) ==
  IF failedTasks(list, files) # <<>>
  THEN [shown |-> TRUE, reports |-> count + 1, outcome |-> showError(strict)]
  ELSE [shown |-> wasShown, reports |-> count, outcome |-> "ok"]

\* feedback.js showLoadingErrors: the flag, the reports shown, the outcome
showLoadingErrors(list, files, wasShown, count, strict) ==
  IF wasShown THEN [shown |-> wasShown, reports |-> count, outcome |-> "ok"]
  ELSE IF failedTasks(list, files) # <<>>
  THEN [shown |-> TRUE, reports |-> count + 1, outcome |-> showError(strict)]
  ELSE [shown |-> wasShown, reports |-> count, outcome |-> "ok"]

\* the glob pattern the configs below use, matching a file or not
Files == { <<"x">> }

AddInputsIndex ==
  { <<Fn(fnA), cfgPlain>>,
    <<Fn(fnA), Arr(<<cfgEmptySrc, cfgPlain>>)>>,
    <<Fn(fnA), Num(1)>>,
    <<Fn(fnB), Obj([NoFields EXCEPT !.src = Str(<<"x">>)])>>,
    <<Str(<<" ", "/", "p", "/", "t">>), cfgPlain>>,
    <<Num(1), cfgPlain>> }

SetInputsIndex ==
  { Obj([NoInput EXCEPT
           !.strict = Str(<<"Y", "e", "s">>), !.notify = Bool(FALSE),
           !.parallel = Num(0),
           !.groups = Obj(<<[key |-> <<"a", "l", "l">>, value |-> Fn("all")],
                            [key |-> sWatch, value |-> Bool(FALSE)]>>)]),
    Num(1) }

\* no GTM_* variable is set in the environment
InitIndex ==
  /\ api = "index"
  /\ options \in {OptionsA(e) : e \in {x \in Env : x.GTM_STRICT = Undef}}
  /\ scripts = <<>>
  /\ gulp = <<>>
  /\ shown = FALSE
  /\ reports = 0
  /\ fs \in SUBSET Files
  /\ last = NoCall
  /\ nAdd = 0
  /\ nSet = 0
  /\ nRun = 0
  /\ optionsLocked = FALSE
  /\ tasks = <<>>

\* gtm.add(callback, configs)
AddIndex ==
  /\ last.op # "exit"
  /\ nAdd < MaxAdd
  /\ \E in \in AddInputsIndex :
       \E r \in {addTasksIndex(in[1], in[2], scripts, gulp, options)} :
          /\ scripts' = r.scripts
          /\ gulp' = r.gulp
          /\ last' = [NoCall EXCEPT !.op = "add", !.outcome = r.outcome,
                                    !.cfg = in[2], !.name = r.name,
                                    !.reached = r.reached]
  /\ nAdd' = nAdd + 1
  /\ UNCHANGED <<options, shown, reports, fs, api, nSet, nRun,
               optionsLocked, tasks>>

\* gtm.options(input)
OptionsIndex ==
  /\ last.op # "exit"
  /\ nSet < MaxSet
  /\ \E in \in SetInputsIndex :
       /\ options' = IF isObject(in) THEN setOptionsIndex(options, in.v) ELSE options
       /\ last' = [NoCall EXCEPT !.op = "options",
                                 !.outcome = IF isObject(in) THEN "ok" ELSE "thrown"]
  /\ nSet' = nSet + 1
  /\ UNCHANGED <<scripts, gulp, shown, reports, fs, api, nAdd, nRun,
               optionsLocked, tasks>>

\* gtm.done()
Done ==
  /\ last.op # "exit"
  /\ gulp' = registerTaskGroups(gulp, options)
  /\ last' = [NoCall EXCEPT !.op = "done"]
  /\ UNCHANGED <<options, scripts, shown, reports, fs, api, nAdd, nSet, nRun,
               optionsLocked, tasks>>

\* gulp runs a watch task: register.js defineGulpTask, the watch callback
RunWatch ==
  /\ last.op # "exit"
  /\ nRun < MaxRun
  /\ \E i \in DOMAIN gulp :
       /\ gulp[i].kind = "watch"
       /\ LET r == showLoadingErrors(scripts, fs, shown, reports, options.strict)
          IN /\ shown' = r.shown
             /\ reports' = r.reports
             /\ last' = [NoCall EXCEPT !.op = "watch", !.outcome = r.outcome]
  /\ nRun' = nRun + 1
  /\ UNCHANGED <<options, scripts, gulp, fs, api, nAdd, nSet,
               optionsLocked, tasks>>

\* gulp runs the task of a group that has no children
RunGroup ==
  /\ last.op # "exit"
  /\ nRun < MaxRun
  /\ \E i \in DOMAIN gulp :
       /\ gulp[i].kind = "emptygroup"
       /\ \E r \in {emptyGroupTask(options.strict)} :
            last' = [NoCall EXCEPT !.op = "group", !.outcome = r.outcome,
                                   !.name = gulp[i].id, !.reached = r.done]
  /\ nRun' = nRun + 1
  /\ UNCHANGED <<options, scripts, gulp, shown, reports, fs, api, nAdd, nSet,
               optionsLocked, tasks>>

\* the process exits: index.js, the 'exit' listener
Exit ==
  /\ last.op # "exit"
  /\ LET r == IF ~options.strict
              THEN showLoadingErrors(scripts, fs, shown, reports, options.strict)
              ELSE [shown |-> shown, reports |-> reports, outcome |-> "ok"]
     IN /\ shown' = r.shown
        /\ reports' = r.reports
        /\ last' = [NoCall EXCEPT !.op = "exit", !.outcome = r.outcome]
  /\ UNCHANGED <<options, scripts, gulp, fs, api, nAdd, nSet, nRun,
               optionsLocked, tasks>>

\* a source file appears or disappears between two calls
FileChange ==
  /\ last.op # "exit"
  /\ \E f \in Files : fs' = IF f \in fs THEN fs \ {f} ELSE fs \cup {f}
  /\ UNCHANGED <<options, scripts, gulp, shown, reports, api, last, nAdd, nSet, nRun,
               optionsLocked, tasks>>

NextIndex ==
  AddIndex \/ OptionsIndex \/ Done \/ RunWatch \/ RunGroup \/ Exit \/ FileChange

SpecIndex == InitIndex /\ [][NextIndex]_vars

-----------------------------------------------------------------------------
(* index.js and shared.js of the load/task/conf revision *)

\* shared.js config, the revision with the buildTask and watchTask options
OptionsLoad ==
  [buildTask |-> Str(sBuild), watchTask |-> Str(sWatch), defaultTask |-> Bool(TRUE),
   notify |-> TRUE, strict |-> FALSE]

NoConf ==
  [buildTask |-> Undef, watchTask |-> Undef, defaultTask |-> Undef,
   notify |-> Undef, strict |-> Undef]

\* shared.js strToBool(x), without a default value
strToBoolShared(x) ==
  toLowerCase(trim(String(x)))
    \in { <<"1">>, <<"t", "r", "u", "e">>, <<"o", "n">>, <<"y", "e", "s">> }

\* shared.js configure
configureShared(conf, input) ==
  IF ~isObject(input) THEN conf
  ELSE LET in == IF input.t = "object" THEN input.v ELSE NoConf
           flag(old, value) ==
             IF value.t \in {"boolean", "string", "number"}
             THEN strToBoolShared(value) ELSE old
           name(old, value) ==
             IF value.t = "string" \/ value = Bool(FALSE) THEN value ELSE old
       IN [strict |-> flag(conf.strict, in.strict),
           notify |-> flag(conf.notify, in.notify),
           buildTask |-> name(conf.buildTask, in.buildTask),
           watchTask |-> name(conf.watchTask, in.watchTask),
           defaultTask |->
             IF in.defaultTask.t \in {"boolean", "string", "object", "array",
                                      "null", "function"}
             THEN in.defaultTask ELSE conf.defaultTask]

\* index.js handleError: stored for later, or notified at once
handleErrorLoad(hasStore, strict) ==
  IF hasStore /\ ~strict THEN "stored" ELSE "notified"

\* index.js configure: the options after the call and how it ended
configure(conf, locked, input) ==
  IF locked THEN [options |-> conf, outcome |-> handleErrorLoad(FALSE, conf.strict)]
  ELSE [options |-> configureShared(conf, input), outcome |-> "ok"]

\* the directories and scripts of the project
ExistingPaths ==
  { <<"/", "p", "/", "d">>,
    <<"/", "p", "/", "d", "/", "t", ".", "j", "s">>,
    <<"/", "p", "/", "d", "/", "e", ".", "j", "s">>,
    <<"/", "p", "/", "d", "/", "n", ".", "j", "s">> }

\* fs.existsSync
existsSync(path) == path \in ExistingPaths

\* the modules under /p/d: t.js exports a function, n.js exports an object,
\* e.js fails to load
requireScript(path) ==
  IF path = <<"/", "p", "/", "d", "/", "t", ".", "j", "s">>
  THEN [ok |-> TRUE, value |-> Fn([NoCallback EXCEPT !.id = 5, !.name = Str(<<"t">>)])]
  ELSE IF path = <<"/", "p", "/", "d", "/", "n", ".", "j", "s">>
  THEN [ok |-> TRUE, value |-> Obj(<<>>)]
  ELSE [ok |-> FALSE, value |-> Undef]

\* path.isAbsolute(p) ? path.normalize(p) : path.join(process.cwd(), p)
absolutePath(p) == IF isAbsolute(p) THEN p ELSE pathJoin(Cwd, p)

\* path.basename(p, '.js')
RECURSIVE basename(_)
basename(p) ==
  IF "/" \in Range(p) THEN basename(Tail(p))
  ELSE IF endsWith(p, <<".", "j", "s">>) /\ Len(p) > 3
       THEN SubSeq(p, 1, Len(p) - 3) ELSE p

\* index.js normalizeSrc, its validate helper
validStrings(input) ==
  LET items == IF isArray(input) THEN input.v ELSE <<input>>
      mapped == [i \in DOMAIN items |->
                  IF items[i].t = "string" THEN trim(items[i].v) ELSE <<>>]
  IN uniq(SelectSeq(mapped, LAMBDA t : t # <<>>))

normalizeSrcLoad(conf) ==
  LET src == strings(validStrings(conf.src))
      watch == IF conf.watch = Bool(TRUE) THEN src
               ELSE strings(validStrings(conf.watch))
  IN [conf EXCEPT !.src = src, !.watch = watch]

\* index.js normalizeUserConfig and validateConfig: the configs kept and the
\* number of errors handed to handleError with the script's error list
normalizeUserConfigLoad(userConfig) ==
  LET list == SelectSeq(IF isArray(userConfig) THEN userConfig.v ELSE <<userConfig>>,
                        isObject)
      normal == [i \in DOMAIN list |-> normalizeSrcLoad(Fields(list[i]))]
  IN IF ~isObject(userConfig) THEN [kept |-> <<>>, errors |-> 1]
     ELSE [kept |-> SelectSeq(normal, LAMBDA c : invalidProps(c) = <<>>),
           errors |-> Len(SelectSeq(normal, LAMBDA c : invalidProps(c) # <<>>))]

sBuildDash == sBuild \o <<"-">>
sWatchDash == sWatch \o <<"-">>

TaskOf(id, kind, key, i, children) ==
  [id |-> id, kind |-> kind, owner |-> key, cb |-> 0, idx |-> i,
   children |-> children, from |-> IF kind = "group" THEN "list" ELSE "config"]

\* index.js registerTaskSet, from the config at 0-based position index on:
\* the sources saved, the gulp tasks defined and their names
RECURSIVE registerItems(_, _, _, _, _, _)
registerItems(key, normalized, index, strict, files, acc) ==
  IF index >= Len(normalized) THEN acc
  ELSE LET item == normalized[index + 1]
           id == key \o (IF Len(normalized) > 1
                         THEN <<"-">> \o numToString(index) ELSE <<>>)
           src == [j \in DOMAIN item.src.v |-> item.src.v[j].v]
           missing == strict /\ \E x \in Range(src) : x \notin files
           g1 == gulpTask(acc.gulp, TaskOf(sBuildDash \o id, "build", key, index + 1, <<>>))
           g2 == IF hasWatch(item)
                 THEN gulpTask(g1, TaskOf(sWatchDash \o id, "watch", key, index + 1, <<>>))
                 ELSE g1
           names == <<sBuildDash \o id>>
                    \o (IF hasWatch(item) THEN <<sWatchDash \o id>> ELSE <<>>)
       IN registerItems(
            key, normalized, index + 1, strict, files,
            IF missing THEN [acc EXCEPT !.sources = @ \o src]
            ELSE [sources |-> acc.sources \o src, gulp |-> g2,
                  names |-> acc.names \o names])

\* names every object has, whatever was stored in it
ObjectProps ==
  { <<"c", "o", "n", "s", "t", "r", "u", "c", "t", "o", "r">>,
    <<"t", "o", "S", "t", "r", "i", "n", "g">> }

\* index.js registerTask
registerTask(key, callback, userConfig, st, conf, files) ==
  LET exists == callback.t = "string" /\ existsSync(callback.v)
      loaded == requireScript(callback.v)
      cb == IF callback.t = "function" THEN callback
            ELSE IF exists /\ loaded.ok THEN loaded.value ELSE Undef
      loadError ==
        IF callback.t = "string" /\ (~exists \/ ~loaded.ok) /\ ~conf.strict
        THEN <<[type |-> IF exists THEN "LoadError" ELSE "NotFound",
                task |-> key, props |-> <<>>]>>
        ELSE <<>>
      norm == normalizeUserConfigLoad(userConfig)
      set == registerItems(key, norm.kept, 0, conf.strict, files,
                           [sources |-> <<>>, gulp |-> st.gulp, names |-> <<>>])
      configErrors ==
        IF conf.strict THEN <<>>
        ELSE [i \in 1..norm.errors |->
               [type |-> "InvalidConfig", task |-> key, props |-> <<>>]]
      info == [name |-> key, callback |-> callback,
               exists |-> IF callback.t = "string" THEN Bool(exists) ELSE Undef,
               sources |-> IF cb.t = "function" THEN set.sources ELSE <<>>,
               errors |-> loadError
                          \o (IF cb.t = "function" THEN configErrors ELSE <<>>)]
  IN IF st.outcome = "thrown" THEN st
     ELSE IF key \in ObjectProps \/ \E i \in DOMAIN st.scripts : st.scripts[i].name = key
     THEN [st EXCEPT !.outcome = handleErrorLoad(FALSE, conf.strict)]
     ELSE IF callback.t = "string" /\ exists /\ ~loaded.ok /\ conf.strict
     THEN [st EXCEPT !.outcome = "thrown"]
     ELSE [scripts |-> Append(st.scripts, info),
           tasks |-> IF cb.t = "function" THEN st.tasks \o set.names ELSE st.tasks,
           gulp |-> IF cb.t = "function" THEN set.gulp ELSE st.gulp,
           outcome |-> st.outcome]

\* index.js registerGlobalTasks, validTaskName
validTaskName(name) ==
  name.t = "string" /\ name.v # <<>> /\ Range(name.v) \cap Whitespace = {}

remember(list, name) == IF name \in Range(list) THEN list ELSE Append(list, name)

sDefault == <<"d", "e", "f", "a", "u", "l", "t">>

\* index.js registerGlobalTasks
registerGlobalTasks(st, conf) ==
  LET builders == SelectSeq(st.tasks, LAMBDA n : startsWith(n, sBuildDash))
      watchers == SelectSeq(st.tasks, LAMBDA n : startsWith(n, sWatchDash))
      w == IF validTaskName(conf.watchTask)
           THEN [gulp |-> gulpTask(st.gulp,
                            TaskOf(conf.watchTask.v, "group", <<>>, 0, watchers)),
                 tasks |-> remember(st.tasks, conf.watchTask.v)]
           ELSE [gulp |-> st.gulp, tasks |-> st.tasks]
      b == IF validTaskName(conf.buildTask)
           THEN [gulp |-> gulpTask(w.gulp,
                            TaskOf(conf.buildTask.v, "group", <<>>, 0, builders)),
                 tasks |-> remember(w.tasks, conf.buildTask.v)]
           ELSE w
      children ==
        IF conf.defaultTask = Bool(TRUE) THEN [set |-> TRUE, list |-> builders]
        ELSE IF conf.defaultTask.t = "boolean" THEN [set |-> FALSE, list |-> <<>>]
        ELSE IF validTaskName(conf.defaultTask)
        THEN [set |-> TRUE, list |-> <<conf.defaultTask.v>>]
        ELSE IF isArray(conf.defaultTask) /\ conf.defaultTask.v # <<>>
        THEN [set |-> TRUE,
              list |-> [i \in DOMAIN conf.defaultTask.v |-> conf.defaultTask.v[i].v]]
        ELSE [set |-> conf.defaultTask.t = "function", list |-> <<>>]
  IN IF st.outcome = "thrown" THEN st
     ELSE IF children.set
     THEN [st EXCEPT
             !.gulp = gulpTask(b.gulp, TaskOf(sDefault, "group", <<>>, 0, children.list)),
             !.tasks = remember(b.tasks, sDefault)]
     ELSE [st EXCEPT !.gulp = b.gulp, !.tasks = b.tasks]

\* Object.keys(tasksConfig) with the values
entries(x) ==
  IF isArray(x)
  THEN [i \in DOMAIN x.v |-> [key |-> numToString(i - 1), value |-> x.v[i]]]
  ELSE x.v

RECURSIVE registerEach(_, _, _, _, _)
registerEach(dir, list, st, conf, files) ==
  IF list = <<>> THEN st
  ELSE registerEach(
         dir, Tail(list),
         registerTask(Head(list).key,
                      Str(dir \o <<"/">> \o Head(list).key \o <<".", "j", "s">>),
                      Head(list).value, st, conf, files),
         conf, files)

\* index.js loadTasks
loadTasks(taskDir, tasksConfig, st, locked, conf, files) ==
  IF taskDir.t # "string" \/ ~isObject(tasksConfig)
  THEN [st |-> [st EXCEPT !.outcome = handleErrorLoad(FALSE, conf.strict)],
        locked |-> locked]
  ELSE IF ~existsSync(absolutePath(taskDir.v))
  THEN [st |-> [st EXCEPT !.outcome = handleErrorLoad(FALSE, conf.strict)],
        locked |-> TRUE]
  ELSE [st |-> registerGlobalTasks(
                 registerEach(absolutePath(taskDir.v), entries(tasksConfig), st,
                              conf, files),
                 conf),
        locked |-> TRUE]

\* index.js loadSingle
loadSingle(scriptId, taskConfig, builder, st, locked, conf, files) ==
  IF scriptId.t # "string" \/ ~Truthy(scriptId) \/ ~isObject(taskConfig)
  THEN [st |-> [st EXCEPT !.outcome = handleErrorLoad(FALSE, conf.strict)],
        locked |-> locked]
  ELSE LET action == IF builder.t = "function" THEN builder
                     ELSE Str(absolutePath(scriptId.v))
           key == IF builder.t = "function" THEN scriptId.v ELSE basename(action.v)
       IN [st |-> registerGlobalTasks(
                    registerTask(key, action, taskConfig, st, conf, files), conf),
           locked |-> TRUE]

LoadInputs ==
  { <<Num(1), Obj(<<>>)>>,
    <<Str(<<"d">>), Num(1)>>,
    <<Str(<<"d">>), Obj(<<[key |-> <<"e">>, value |-> cfgWatch],
                          [key |-> <<"n">>, value |-> cfgPlain],
                          [key |-> <<"m">>, value |-> cfgPlain],
                          [key |-> <<"t">>, value |-> cfgPlain]>>)>>,
    <<Str(<<"q">>), Obj(<<[key |-> <<"t">>, value |-> cfgPlain]>>)>> }

TaskInputs ==
  { <<Str(<<>>), cfgPlain, Undef>>,
    <<Str(<<"k">>), Num(1), Fn(fnA)>>,
    <<Str(<<"k">>), Arr(<<cfgWatch, cfgEmptySrc, cfgPlain>>), Fn(fnA)>>,
    <<Str(<<"d", "/", "t", ".", "j", "s">>), cfgWatch, Undef>>,
    <<Str(<<"d", "/", "m", ".", "j", "s">>), cfgPlain, Undef>> }

ConfInputs ==
  { Obj([NoConf EXCEPT !.strict = Str(<<"o", "n">>)]),
    Obj([NoConf EXCEPT !.buildTask = Str(<<"b">>), !.watchTask = Bool(FALSE),
                       !.defaultTask = Str(<<"b">>)]),
    Num(1) }

InitLoad ==
  /\ api = "load"
  /\ options = OptionsLoad
  /\ scripts = <<>>
  /\ gulp = <<>>
  /\ shown = FALSE
  /\ reports = 0
  /\ fs \in SUBSET Files
  /\ last = NoCall
  /\ nAdd = 0
  /\ nSet = 0
  /\ nRun = 0
  /\ optionsLocked = FALSE
  /\ tasks = <<>>

LoadState == [scripts |-> scripts, tasks |-> tasks, gulp |-> gulp, outcome |-> "ok"]

\* index.js showLoadingErrors: the tasks the report names
failedTasksLoad(list, files, strict) ==
  SelectSeq(list, LAMBDA info :
    \/ info.exists = Bool(FALSE)
    \/ ~strict /\ \E src \in Range(info.sources) : src \notin files
    \/ info.errors # <<>>)

\* index.js showLoadingErrors: the test of errorsShown has an empty body
showLoadingErrorsLoad(list, files, wasShown, count, strict) ==
  IF failedTasksLoad(list, files, strict) # <<>>
  THEN [shown |-> TRUE, reports |-> count + 1]
  ELSE [shown |-> wasShown, reports |-> count]

\* gtm.load(taskDir, tasksConfig)
Load ==
  /\ last.op # "exit"
  /\ nAdd < MaxAdd
  /\ \E in \in LoadInputs :
       \E r \in {loadTasks(in[1], in[2], LoadState, optionsLocked, options, fs)} :
          /\ scripts' = r.st.scripts
          /\ tasks' = r.st.tasks
          /\ gulp' = r.st.gulp
          /\ optionsLocked' = r.locked
          /\ last' = [NoCall EXCEPT !.op = "load", !.outcome = r.st.outcome,
                                    !.cb = in[1], !.cfg = in[2]]
  /\ nAdd' = nAdd + 1
  /\ UNCHANGED <<options, shown, reports, fs, api, nSet, nRun>>

\* gtm.task(scriptId, taskConfig, builder)
Task ==
  /\ last.op # "exit"
  /\ nAdd < MaxAdd
  /\ \E in \in TaskInputs :
       \E r \in {loadSingle(in[1], in[2], in[3], LoadState, optionsLocked,
                          options, fs)} :
          /\ scripts' = r.st.scripts
          /\ tasks' = r.st.tasks
          /\ gulp' = r.st.gulp
          /\ optionsLocked' = r.locked
          /\ last' = [NoCall EXCEPT !.op = "task", !.outcome = r.st.outcome,
                                    !.cb = in[1], !.cfg = in[2]]
  /\ nAdd' = nAdd + 1
  /\ UNCHANGED <<options, shown, reports, fs, api, nSet, nRun>>

\* gtm.conf(input)
Conf ==
  /\ last.op # "exit"
  /\ nSet < MaxSet
  /\ \E in \in ConfInputs :
       LET r == configure(options, optionsLocked, in)
       IN /\ options' = r.options
          /\ last' = [NoCall EXCEPT !.op = "conf", !.outcome = r.outcome, !.cb = in]
  /\ nSet' = nSet + 1
  /\ UNCHANGED <<scripts, gulp, shown, reports, fs, api, nAdd, nRun,
                 optionsLocked, tasks>>

\* gulp runs the global watch task: watchEnd of registerGlobalTasks
RunWatchLoad ==
  /\ last.op # "exit"
  /\ nRun < MaxRun
  /\ \E i \in DOMAIN gulp :
       /\ gulp[i].kind = "group"
       /\ Str(gulp[i].id) = options.watchTask
       /\ \E r \in {IF ~options.strict
                     THEN showLoadingErrorsLoad(scripts, fs, shown, reports,
                                                options.strict)
                     ELSE [shown |-> shown, reports |-> reports]} :
            /\ shown' = r.shown
            /\ reports' = r.reports
       /\ last' = [NoCall EXCEPT !.op = "watch", !.name = gulp[i].id]
  /\ nRun' = nRun + 1
  /\ UNCHANGED <<options, scripts, gulp, fs, api, nAdd, nSet, optionsLocked, tasks>>

\* the process exits: the 'exit' listener
ExitLoad ==
  /\ last.op # "exit"
  /\ \E r \in {IF ~options.strict
                THEN showLoadingErrorsLoad(scripts, fs, shown, reports, options.strict)
                ELSE [shown |-> shown, reports |-> reports]} :
       /\ shown' = r.shown
       /\ reports' = r.reports
  /\ last' = [NoCall EXCEPT !.op = "exit"]
  /\ UNCHANGED <<options, scripts, gulp, fs, api, nAdd, nSet, nRun,
                 optionsLocked, tasks>>

NextLoad == Load \/ Task \/ Conf \/ RunWatchLoad \/ ExitLoad

SpecLoad == InitLoad /\ [][NextLoad]_vars

-----------------------------------------------------------------------------
(* normalizeConfig and normalizeSrc applied to one config at a time *)

\* the configs tried: every src, dest and watch below, combined
ConfigInputs ==
  { Obj([NoFields EXCEPT !.src = src, !.dest = dest, !.watch = watch]) :
      src \in { Undef, Str(<<"x">>), Str(<<" ">>), Arr(<<>>),
                Arr(<<Str(<<" ", "x">>), Str(<<"x">>), Num(1), Str(<<"y">>)>>),
                Arr(<<Str(<<"y">>), Str(<<" ">>), Str(<<"x">>), Str(<<"y", " ">>)>>) },
      dest \in { Undef, Str(<<"o">>), Fn("dest"), Num(5) },
      watch \in { Undef, Bool(TRUE), Bool(FALSE), Str(<<"y", " ">>), Num(1),
                  Arr(<<Str(<<"w">>), Str(<<" ", "w">>)>>) } }

InitNormalize ==
  /\ api = "normalize"
  /\ options \in {OptionsB(e) : e \in {x \in Env : x.GTM_STRICT = Undef}}
  /\ scripts = <<>>
  /\ gulp = <<>>
  /\ shown = FALSE
  /\ reports = 0
  /\ fs = {}
  /\ last = NoCall
  /\ nAdd = 0
  /\ nSet = 0
  /\ nRun = 0
  /\ optionsLocked = FALSE
  /\ tasks = <<>>

\* the job definition of fn after config alone went through a normalization
\* that kept the configs of the list kept and found the errors of the list errors
Normalized(fn, config, kept, errors) ==
  [NewData(callbackName(fn), fn) EXCEPT
     !.configs = <<config>>, !.normalizedConfigs = kept, !.errors = errors]

\* add.js: normalizeConfig(config, data) for a job definition that is new
NormalizeConfig ==
  /\ \E fn \in {fnA, fnB}, config \in ConfigInputs :
       \E r \in {normalizeConfig(config, NewData(callbackName(fn), fn))} :
         /\ scripts' = <<Normalized(fn, config,
                                    IF r.ok THEN <<r.cfg>> ELSE <<>>,
                                    IF r.ok THEN <<>> ELSE <<r.error>>)>>
         /\ last' = [NoCall EXCEPT !.op = "normalizeConfig", !.cfg = config,
                                   !.outcome = IF r.ok THEN "ok" ELSE "invalid"]
  /\ UNCHANGED <<options, gulp, shown, reports, fs, api, nAdd, nSet, nRun,
                 optionsLocked, tasks>>

\* register.js: normalizeSrc of the config merged with defaultConfig, kept
\* when validateConfig finds no invalid property
NormalizeSrc ==
  /\ \E fn \in {fnA, fnB}, config \in ConfigInputs :
       \E r \in {normalizeSrc(assign(fn.defaultConfig, config))} :
         /\ scripts' = <<Normalized(fn, config,
                                    IF invalidProps(r) = <<>> THEN <<r>> ELSE <<>>,
                                    <<>>)>>
         /\ last' = [NoCall EXCEPT !.op = "normalizeSrc", !.cfg = config,
                                   !.outcome = IF invalidProps(r) = <<>>
                                               THEN "ok" ELSE "invalid"]
  /\ UNCHANGED <<options, gulp, shown, reports, fs, api, nAdd, nSet, nRun,
                 optionsLocked, tasks>>

\* index.js of the load/task/config revision with status, normalizeSrc:
\* Object.assign(conf, {src, watch}) writes both properties into conf itself
\* and returns it, so the object returned is the caller's object
normalizeSrcAssign(conf) ==
  LET src == strings(validStrings(conf.src))
      written == [conf EXCEPT
                    !.src = src,
                    !.watch = IF conf.watch = Bool(TRUE) THEN src
                              ELSE strings(validStrings(conf.watch))]
  IN [conf |-> written, result |-> written]

\* the same file, normalizeUserConfig and validateConfig: the configs kept,
\* the number of errors pushed, and the caller's value after the call
normalizeUserConfigAssign(userConfig) ==
  LET items == IF isArray(userConfig) THEN userConfig.v ELSE <<userConfig>>
      after == [i \in DOMAIN items |->
                 IF items[i].t = "object"
                 THEN Obj(normalizeSrcAssign(items[i].v).conf) ELSE items[i]]
      normal == [i \in DOMAIN items |-> normalizeSrcAssign(Fields(items[i])).result]
      objects == { i \in DOMAIN items : isObject(items[i]) }
  IN IF ~isObject(userConfig)
     THEN [kept |-> <<>>, errors |-> 1, userConfig |-> userConfig]
     ELSE [kept |-> SelectSeq([i \in DOMAIN items |->
                                IF i \in objects /\ invalidProps(normal[i]) = <<>>
                                THEN normal[i] ELSE Null],
                              LAMBDA c : c # Null),
           errors |-> Cardinality({ i \in objects : invalidProps(normal[i]) # <<>> }),
           userConfig |-> IF isArray(userConfig) THEN Arr(after) ELSE after[1]]

\* normalizeUserConfig(key, userConfig) for a config given alone, in an
\* array, or not given
NormalizeUserConfig ==
  /\ \E userConfig \in ConfigInputs
                       \cup { Arr(<<config, Num(1), cfgWatch>>) : config \in ConfigInputs }
                       \cup { Undef } :
       \E r \in {normalizeUserConfigAssign(userConfig)} :
         /\ scripts' = <<[name |-> <<"k">>, normalizedConfigs |-> r.kept,
                          errors |-> [i \in 1..r.errors |->
                                       [type |-> "InvalidConfig", task |-> <<"k">>,
                                        props |-> <<>>]]]>>
         /\ last' = [NoCall EXCEPT !.op = "normalizeUserConfig", !.cfg = userConfig,
                                   !.cb = r.userConfig,
                                   !.outcome = IF r.errors = 0 THEN "ok"
                                               ELSE "invalid"]
  /\ UNCHANGED <<options, gulp, shown, reports, fs, api, nAdd, nSet, nRun,
                 optionsLocked, tasks>>

NextNormalize == NormalizeConfig \/ NormalizeSrc \/ NormalizeUserConfig

SpecNormalize == InitNormalize /\ [][NextNormalize]_vars

-----------------------------------------------------------------------------
(* shared.js: the state, configure and copyState behind info() *)

\* shared.js config
ConfigShared ==
  [notify |-> TRUE, strict |-> FALSE,
   prefix |-> [build |-> sBuildDash, watch |-> sWatchDash],
   groups |-> <<[key |-> sBuild, value |-> Fn("isBuild")],
                [key |-> sWatch, value |-> Fn("isWatch")]>>]

\* shared.js configure
configureInfo(conf, input) ==
  IF ~isObject(input) \/ input.t # "object" THEN conf
  ELSE [notify |-> IF input.v.notify.t \in {"boolean", "string", "number"}
                   THEN strToBoolShared(input.v.notify) ELSE conf.notify,
        strict |-> IF input.v.strict.t \in {"boolean", "string", "number"}
                   THEN strToBoolShared(input.v.strict) ELSE conf.strict,
        prefix |-> [build |-> setPrefix(conf.prefix.build, input.v.prefix, "build"),
                    watch |-> setPrefix(conf.prefix.watch, input.v.prefix, "watch")],
        groups |-> IF input.v.groups.t = "object"
                   THEN setGroups(conf.groups, input.v.groups.v) ELSE conf.groups]

\* a property value that is an object: the object itself, not a copy of it
Ref(path) == [ref |-> path]

isRef(x) == DOMAIN x = {"ref"}

\* Array.prototype.sort() of strings: by UTF-16 code units
sorted(list) ==
  LET units == <<"-", "0", "1", "2", "3", "4", "5", "6", "7", "8", "9", "_",
                 "a", "b", "c", "d", "e", "f", "g", "h", "i", "j", "k", "l", "m",
                 "n", "o", "p", "q", "r", "s", "t", "u", "v", "w", "x", "y", "z">>
      code(c) == CHOOSE i \in DOMAIN units : units[i] = c
      before(a, b) ==
        \E k \in 1..(Len(a) + 1) :
          /\ \A i \in 1..(k - 1) : i <= Len(b) /\ a[i] = b[i]
          /\ k <= Len(b)
          /\ k > Len(a) \/ code(a[k]) < code(b[k])
  IN CHOOSE r \in [DOMAIN list -> Range(list)] :
       /\ \A x \in Range(list) :
            Cardinality({i \in DOMAIN list : list[i] = x})
              = Cardinality({i \in DOMAIN list : r[i] = x})
       /\ \A i, j \in DOMAIN list : i < j => ~before(r[j], r[i])

\* shared.js copyState: Object.assign({}, config) copies the value of every
\* property, and the value of prefix and of groups is the object itself
copyState(conf, locked, wasShown, taskList, list) ==
  [config |-> [notify |-> conf.notify, strict |-> conf.strict,
               prefix |-> Ref("prefix"), groups |-> Ref("groups")],
   flags |-> [errorsShown |-> wasShown, optionsLocked |-> locked],
   tasks |-> sorted(taskList),
   scripts |-> [i \in DOMAIN list |->
                 [name |-> list[i].name,
                  callback |-> list[i].callback,
                  exists |-> list[i].exists,
                  sources |-> list[i].sources,
                  knownMissingDependencies |-> list[i].missingDeps,
                  errors |-> list[i].errors]]]

\* the caller writes to one part of the snapshot: the snapshot after the
\* write, and the state of the library, which a write through a shared
\* object changes
writeTo(snapshot, part, conf, list, taskList) ==
  LET kept == [snapshot |-> snapshot, options |-> conf, scripts |-> list,
               tasks |-> taskList]
      m == <<"m">>
  IN CASE part = "config.strict" ->
            [kept EXCEPT !.snapshot.config.strict = ~@]
       [] part = "config.prefix.build" ->
            IF isRef(snapshot.config.prefix)
            THEN [kept EXCEPT !.options.prefix.build = m]
            ELSE [kept EXCEPT !.snapshot.config.prefix.build = m]
       [] part = "config.groups.build" ->
            IF isRef(snapshot.config.groups)
            THEN [kept EXCEPT !.options.groups = putGroup(@, sBuild, Null)]
            ELSE [kept EXCEPT !.snapshot.config.groups = putGroup(@, sBuild, Null)]
       [] part = "flags.optionsLocked" ->
            [kept EXCEPT !.snapshot.flags.optionsLocked = ~@]
       [] part = "tasks" ->
            [kept EXCEPT !.snapshot.tasks = Append(@, m)]
       [] part = "sources" ->
            [kept EXCEPT !.snapshot.scripts[Len(list)].sources = Append(@, m)]
       [] part = "errors" ->
            [kept EXCEPT !.snapshot.scripts[Len(list)].errors =
                            Append(@, [type |-> "m", task |-> m, props |-> <<>>])]
       [] OTHER ->
            [kept EXCEPT !.snapshot.scripts[Len(list)].knownMissingDependencies =
                            Append(@, [key |-> m, value |-> m])]

\* the scripts and tasks registered before info() is called
InitInfo ==
  /\ api = "info"
  /\ options = ConfigShared
  /\ \E n \in 0..3 :
       /\ scripts =
            SubSeq(<<[name |-> <<"t">>, callback |-> Str(<<"/", "p", "/", "t">>),
                      exists |-> Bool(TRUE), sources |-> << <<"x">> >>,
                      errors |-> <<[type |-> "InvalidConfig", task |-> <<"t">>,
                                    props |-> <<>>]>>,
                      missingDeps |-> <<>>],
                     [name |-> <<"s">>, callback |-> Fn(fnA),
                      exists |-> Undef, sources |-> << <<"y">> >>,
                      errors |-> <<>>, missingDeps |-> <<>>],
                     [name |-> <<"f">>, callback |-> Str(<<"/", "p", "/", "f">>),
                      exists |-> Bool(TRUE), sources |-> <<>>,
                      errors |-> <<>>,
                      missingDeps |-> <<[key |-> <<"d">>, value |-> <<"1">>]>>]>>,
                   1, n)
       /\ tasks = IF n = 0 THEN <<>>
                  ELSE IF n = 1 THEN <<sBuildDash \o <<"t">>, sWatchDash \o <<"t">>>>
                  ELSE <<sBuildDash \o <<"t">>, sWatchDash \o <<"t">>,
                         sBuildDash \o <<"s">>>>
  /\ gulp = <<>>
  /\ shown = FALSE
  /\ reports = 0
  /\ fs = {}
  /\ last = NoCall
  /\ nAdd = 0
  /\ nSet = 0
  /\ nRun = 0
  /\ optionsLocked \in BOOLEAN

\* shared.configure(input)
ConfigureInfo ==
  /\ nSet < MaxSet
  /\ \E in \in SetInputs :
       /\ options' = configureInfo(options, in)
       /\ last' = [last EXCEPT !.cb = in]
  /\ nSet' = nSet + 1
  /\ UNCHANGED <<scripts, gulp, shown, reports, fs, api, nAdd, nRun,
                 optionsLocked, tasks>>

\* gtm.info(): the caller now holds a snapshot
Info ==
  /\ last' = [NoCall EXCEPT
                !.op = "info", !.reached = TRUE,
                !.cfg = copyState(options, optionsLocked, shown, tasks, scripts)]
  /\ UNCHANGED <<options, scripts, gulp, shown, reports, fs, api, nAdd, nSet, nRun,
                 optionsLocked, tasks>>

\* the caller of info() writes to a part of the snapshot it holds
Mutate ==
  /\ last.op \in {"info", "mutate"}
  /\ nRun < MaxRun
  /\ \E part \in {"config.strict", "config.prefix.build", "config.groups.build",
                   "flags.optionsLocked", "tasks"}
                  \cup (IF scripts = <<>> THEN {}
                        ELSE {"sources", "errors", "knownMissingDependencies"}) :
       \E r \in {writeTo(last.cfg, part, options, scripts, tasks)} :
         /\ options' = r.options
         /\ scripts' = r.scripts
         /\ tasks' = r.tasks
         /\ last' = [NoCall EXCEPT !.op = "mutate", !.reached = TRUE,
                                   !.cfg = r.snapshot, !.outcome = part]
  /\ nRun' = nRun + 1
  /\ UNCHANGED <<gulp, shown, reports, fs, api, nAdd, nSet, optionsLocked>>

NextInfo == ConfigureInfo \/ Info \/ Mutate

SpecInfo == InitInfo /\ [][NextInfo]_vars

-----------------------------------------------------------------------------
(* helpers.js strToBool applied to one value at a time *)

\* the words tried, in several spellings
BoolWords ==
  { <<"1">>, <<"t", "r", "u", "e">>, <<"T", "R", "U", "E">>, <<"T", "r", "u", "e">>,
    <<"o", "n">>, <<"O", "N">>, <<"y", "e", "s">>, <<"Y", "e", "s">>,
    <<"0">>, <<"f", "a", "l", "s", "e">>, <<"F", "A", "L", "S", "E">>,
    <<"o", "f", "f">>, <<"O", "f", "f">>, <<"n", "o">>, <<"N", "O">>,
    <<>>, <<"2">>, <<"1", "0">>, <<"y">>, <<"t", " ", "r", "u", "e">>,
    <<"y", "e", "s", "s">>, <<"n", "u", "l", "l">>, <<"o", "n", "e">> }

Pads == { <<>>, <<" ">>, <<"\t", " ">> }

\* environment variables and option values: strings, or values of other types
BoolInputs ==
  { Str(a \o w \o b) : a \in Pads, w \in BoolWords, b \in Pads }
    \cup { Undef, Null, Bool(TRUE), Bool(FALSE), Num(0), Num(1), Num(2) }

InitBool ==
  /\ api = "bool"
  /\ options = OptionsLoad
  /\ scripts = <<>>
  /\ gulp = <<>>
  /\ shown = FALSE
  /\ reports = 0
  /\ fs = {}
  /\ \E input \in BoolInputs, defaultValue \in {Undef, Bool(FALSE), Bool(TRUE)} :
       last = [NoCall EXCEPT !.cb = input, !.cfg = defaultValue]
  /\ nAdd = 0
  /\ nSet = 0
  /\ nRun = 0
  /\ optionsLocked = FALSE
  /\ tasks = <<>>

\* strToBool(input, defaultValue), the default being false when none is given
StrToBool ==
  /\ last.op = "init"
  /\ last' = [last EXCEPT
               !.op = "strToBool",
               !.reached = strToBool(last.cb, IF last.cfg = Undef THEN FALSE
                                               ELSE last.cfg.v)]
  /\ UNCHANGED <<options, scripts, gulp, shown, reports, fs, api, nAdd, nSet,
                 nRun, optionsLocked, tasks>>

NextBool == StrToBool

SpecBool == InitBool /\ [][NextBool]_vars

-----------------------------------------------------------------------------
(* index.js of the load/task/config revision: the GTM object *)

sTasksFlag == <<"-", "-", "t", "a", "s", "k", "s">>

\* the GTM object: the three options and the arguments gulp was called with
OptionsMaker(args) ==
  [buildTask |-> Str(sBuild), watchTask |-> Str(sWatch), defaultTask |-> Bool(TRUE),
   args |-> args]

\* index.js configureTaskMaker
configureTaskMaker(conf, locked, input) ==
  IF ~isObject(input) THEN [options |-> conf, outcome |-> "ok"]
  ELSE IF locked THEN [options |-> conf, outcome |-> "thrown"]
  ELSE LET in == IF input.t = "object" THEN input.v ELSE NoConf
       IN [options |->
             [conf EXCEPT
                !.buildTask = IF in.buildTask.t = "string" \/ in.buildTask = Bool(FALSE)
                              THEN in.buildTask ELSE @,
                !.watchTask = IF in.watchTask.t = "string" \/ in.watchTask = Bool(FALSE)
                              THEN in.watchTask ELSE @,
                !.defaultTask = IF in.defaultTask # Undef THEN in.defaultTask ELSE @],
           outcome |-> "ok"]

\* index.js getRunningMode
getRunningMode(conf) ==
  IF conf.buildTask.t = "string" /\ conf.buildTask.v \in Range(conf.args)
  THEN "build"
  ELSE IF conf.watchTask.t = "string" /\ conf.watchTask.v \in Range(conf.args)
  THEN "watch"
  ELSE IF sTasksFlag \in Range(conf.args) THEN "tasks"
  ELSE ""

\* index.js normalizeSrc: [].concat(input).filter(valid)
validItems(input) ==
  SelectSeq(IF isArray(input) THEN input.v ELSE <<input>>,
            LAMBDA x : x.t = "string" /\ trim(x.v) # <<>>)

normalizeSrcMaker(conf) ==
  [conf EXCEPT
     !.src = Arr(validItems(conf.src)),
     !.watch = IF conf.watch = Bool(TRUE) THEN Arr(validItems(conf.src))
               ELSE Arr(validItems(conf.watch))]

\* index.js normalizeUserConfig and validateConfig: the configs kept and the
\* number of errors pushed to the script's error list
normalizeUserConfigMaker(userConfig) ==
  LET list == SelectSeq(IF isArray(userConfig) THEN userConfig.v ELSE <<userConfig>>,
                        isObject)
      normal == [i \in DOMAIN list |-> normalizeSrcMaker(Fields(list[i]))]
  IN IF ~isObject(userConfig) THEN [kept |-> <<>>, errors |-> 1]
     ELSE [kept |-> SelectSeq(normal, LAMBDA c : invalidProps(c) = <<>>),
           errors |-> Len(SelectSeq(normal, LAMBDA c : invalidProps(c) # <<>>))]

\* index.js registerTaskSet, from the config at 0-based position index on:
\* the sources saved, the gulp tasks defined and their names
RECURSIVE registerSetMaker(_, _, _, _)
registerSetMaker(key, normalized, index, acc) ==
  IF index >= Len(normalized) THEN acc
  ELSE LET item == normalized[index + 1]
           id == key \o (IF Len(normalized) > 1
                         THEN <<"-">> \o numToString(index) ELSE <<>>)
           g1 == gulpTask(acc.gulp, TaskOf(sBuildDash \o id, "build", key, index + 1, <<>>))
       IN registerSetMaker(
            key, normalized, index + 1,
            [sources |-> [j \in DOMAIN item.src.v |-> item.src.v[j].v],
             gulp |-> IF hasWatch(item)
                      THEN gulpTask(g1, TaskOf(sWatchDash \o id, "watch", key,
                                               index + 1, <<>>))
                      ELSE g1,
             names |-> acc.names \o <<sBuildDash \o id>>
                       \o (IF hasWatch(item) THEN <<sWatchDash \o id>> ELSE <<>>)])

\* index.js registerTask, for a script that exists and a new configName
registerLoaded(configName, scriptPath, loaded, norm, set, st) ==
  [scripts |->
     Append(st.scripts,
            [name |-> configName, path |-> scriptPath, exists |-> TRUE,
             sources |-> IF loaded.ok /\ Truthy(loaded.value) THEN set.sources
                         ELSE <<>>,
             errors |->
               (IF loaded.ok THEN <<>>
                ELSE <<[type |-> "LoadError", task |-> configName, props |-> <<>>]>>)
               \o (IF loaded.ok /\ Truthy(loaded.value)
                   THEN [i \in 1..norm.errors |->
                          [type |-> "InvalidConfig", task |-> configName,
                           props |-> <<>>]]
                   ELSE <<>>)]),
   tasks |-> IF loaded.ok /\ Truthy(loaded.value) THEN st.tasks \o set.names
             ELSE st.tasks,
   gulp |-> IF loaded.ok /\ Truthy(loaded.value) THEN set.gulp ELSE st.gulp,
   outcome |-> st.outcome]

\* index.js registerTask
registerTaskMaker(configName, scriptPath, userConfig, st) ==
  IF configName \in ObjectProps
     \/ \E i \in DOMAIN st.scripts : st.scripts[i].name = configName
  THEN [st EXCEPT !.outcome = "notified"]
  ELSE IF ~existsSync(scriptPath) THEN st
  ELSE registerLoaded(
         configName, scriptPath, requireScript(scriptPath),
         normalizeUserConfigMaker(userConfig),
         registerSetMaker(configName, normalizeUserConfigMaker(userConfig).kept, 0,
                          [sources |-> <<>>, gulp |-> st.gulp, names |-> <<>>]),
         st)

\* index.js registerGlobalTasks, remember: the name pushed to the start
rememberFirst(list, name) ==
  IF name \in Range(list) THEN list ELSE <<name>> \o list

\* index.js registerGlobalTasks, the default task, once the watch and build
\* groups are defined
registerDefault(st, conf) ==
  IF conf.defaultTask = Bool(TRUE) /\ Truthy(conf.buildTask)
  THEN [st EXCEPT
          !.gulp = gulpTask(@, TaskOf(sDefault, "group", <<>>, 0, <<conf.buildTask.v>>)),
          !.tasks = rememberFirst(@, sDefault)]
  ELSE IF conf.defaultTask.t = "function"
  THEN [st EXCEPT
          !.gulp = gulpTask(@, TaskOf(sDefault, "group", <<>>, 0, <<>>)),
          !.tasks = rememberFirst(@, sDefault)]
  ELSE IF isArray(conf.defaultTask) /\ conf.defaultTask.v # <<>>
  THEN [st EXCEPT
          !.gulp = gulpTask(@, TaskOf(sDefault, "group", <<>>, 0,
                     [i \in DOMAIN conf.defaultTask.v |-> conf.defaultTask.v[i].v])),
          !.tasks = rememberFirst(@, sDefault)]
  ELSE IF conf.defaultTask.t = "string"
  THEN [st EXCEPT
          !.gulp = gulpTask(@, TaskOf(sDefault, "group", <<>>, 0,
                                      <<conf.defaultTask.v>>)),
          !.tasks = rememberFirst(@, sDefault)]
  ELSE st

\* index.js registerGlobalTasks: the groups filter the task list as it was
\* when the function was entered
registerGlobalTasksMaker(st, conf) ==
  LET watchers == SelectSeq(st.tasks, LAMBDA n : startsWith(n, sWatch))
      builders == SelectSeq(st.tasks, LAMBDA n : startsWith(n, sBuild))
      w == IF Truthy(conf.watchTask)
           THEN [st EXCEPT
                   !.gulp = gulpTask(@, TaskOf(conf.watchTask.v, "group", <<>>, 0,
                                               watchers)),
                   !.tasks = rememberFirst(@, conf.watchTask.v)]
           ELSE st
      b == IF Truthy(conf.buildTask)
           THEN [w EXCEPT
                   !.gulp = gulpTask(@, TaskOf(conf.buildTask.v, "group", <<>>, 0,
                                               builders)),
                   !.tasks = rememberFirst(@, conf.buildTask.v)]
           ELSE w
  IN registerDefault(b, conf)

\* index.js showLoadingErrors: the flag and the reports shown
showLoadingErrorsMaker(list, files, wasShown, count) ==
  IF wasShown THEN [shown |-> wasShown, reports |-> count]
  ELSE IF \E i \in DOMAIN list :
            \/ ~list[i].exists
            \/ \E src \in Range(list[i].sources) : src \notin files
            \/ list[i].errors # <<>>
  THEN [shown |-> TRUE, reports |-> count + 1]
  ELSE [shown |-> wasShown, reports |-> count]

\* the end of load and task: the errors displayed if not running a global task
registered(st, conf, files, wasShown, count) ==
  [st |-> st,
   report |-> IF getRunningMode(conf) \in {"tasks", ""}
              THEN showLoadingErrorsMaker(st.scripts, files, wasShown, count)
              ELSE [shown |-> wasShown, reports |-> count]]

RECURSIVE registerEachMaker(_, _, _)
registerEachMaker(dir, list, st) ==
  IF list = <<>> THEN st
  ELSE registerEachMaker(
         dir, Tail(list),
         registerTaskMaker(Head(list).key,
                           dir \o <<"/">> \o Head(list).key \o <<".", "j", "s">>,
                           Head(list).value, st))

\* index.js loadTasks
loadTasksMaker(taskDir, tasksConfig, st, conf, files, wasShown, count) ==
  IF taskDir.t = "string" /\ existsSync(absolutePath(taskDir.v))
     /\ isObject(tasksConfig)
  THEN registered(
         registerGlobalTasksMaker(
           registerEachMaker(absolutePath(taskDir.v), entries(tasksConfig), st),
           conf),
         conf, files, wasShown, count)
  ELSE [st |-> [st EXCEPT !.outcome = "notified"],
        report |-> [shown |-> wasShown, reports |-> count]]

\* index.js loadSingle
loadSingleMaker(scriptPath, taskConfig, st, conf, files, wasShown, count) ==
  IF scriptPath.t # "string" \/ ~isObject(taskConfig)
  THEN [st |-> [st EXCEPT !.outcome = "thrown"],
        report |-> [shown |-> wasShown, reports |-> count]]
  ELSE registered(
         registerGlobalTasksMaker(
           registerTaskMaker(basename(absolutePath(scriptPath.v)),
                             absolutePath(scriptPath.v), taskConfig, st),
           conf),
         conf, files, wasShown, count)

InitMaker ==
  /\ api = "maker"
  /\ options \in { OptionsMaker(args) : args \in {<<>>, <<sBuild>>, <<sTasksFlag>>} }
  /\ scripts = <<>>
  /\ gulp = <<>>
  /\ shown = FALSE
  /\ reports = 0
  /\ fs \in SUBSET Files
  /\ last = NoCall
  /\ nAdd = 0
  /\ nSet = 0
  /\ nRun = 0
  /\ optionsLocked = FALSE
  /\ tasks = <<>>

\* gtm.load(taskDir, tasksConfig)
LoadMaker ==
  /\ nAdd < MaxAdd
  /\ \E in \in LoadInputs :
       \E r \in {loadTasksMaker(in[1], in[2], LoadState, options, fs, shown, reports)} :
          /\ scripts' = r.st.scripts
          /\ tasks' = r.st.tasks
          /\ gulp' = r.st.gulp
          /\ shown' = r.report.shown
          /\ reports' = r.report.reports
          /\ last' = [NoCall EXCEPT !.op = "load", !.outcome = r.st.outcome,
                                    !.cb = in[1], !.cfg = in[2]]
  /\ optionsLocked' = TRUE
  /\ nAdd' = nAdd + 1
  /\ UNCHANGED <<options, fs, api, nSet, nRun>>

\* gtm.task(scriptPath, taskConfig)
TaskMaker ==
  /\ nAdd < MaxAdd
  /\ \E in \in { <<Num(1), cfgPlain>>,
                  <<Str(<<"d", "/", "t", ".", "j", "s">>), Num(1)>>,
                  <<Str(<<"d", "/", "t", ".", "j", "s">>), cfgWatch>>,
                  <<Str(<<"/", "p", "/", "d", "/", "n", ".", "j", "s">>),
                    Arr(<<cfgPlain, cfgEmptySrc, cfgWatch>>)>>,
                  <<Str(<<"d", "/", "m", ".", "j", "s">>), cfgPlain>> } :
       \E r \in {loadSingleMaker(in[1], in[2], LoadState, options, fs, shown,
                                 reports)} :
          /\ scripts' = r.st.scripts
          /\ tasks' = r.st.tasks
          /\ gulp' = r.st.gulp
          /\ shown' = r.report.shown
          /\ reports' = r.report.reports
          /\ last' = [NoCall EXCEPT !.op = "task", !.outcome = r.st.outcome,
                                    !.cb = in[1], !.cfg = in[2]]
  /\ optionsLocked' = TRUE
  /\ nAdd' = nAdd + 1
  /\ UNCHANGED <<options, fs, api, nSet, nRun>>

\* gtm.config(config)
ConfigMaker ==
  /\ nSet < MaxSet
  /\ \E in \in ConfInputs :
       \E r \in {configureTaskMaker(options, optionsLocked, in)} :
          /\ options' = r.options
          /\ last' = [NoCall EXCEPT !.op = "config", !.outcome = r.outcome, !.cb = in]
  /\ nSet' = nSet + 1
  /\ UNCHANGED <<scripts, gulp, shown, reports, fs, api, nAdd, nRun,
                 optionsLocked, tasks>>

\* gulp runs the global build or watch task, which does not depend on itself:
\* the function given to gulp.task by registerGlobalTasks
RunGlobalMaker ==
  /\ nRun < MaxRun
  /\ \E i \in DOMAIN gulp :
       /\ gulp[i].kind = "group"
       /\ Str(gulp[i].id) \in {options.buildTask, options.watchTask}
       /\ gulp[i].id \notin Range(gulp[i].children)
       /\ \E r \in {showLoadingErrorsMaker(scripts, fs, shown, reports)} :
            /\ shown' = r.shown
            /\ reports' = r.reports
       /\ last' = [NoCall EXCEPT !.op = "run", !.name = gulp[i].id]
  /\ nRun' = nRun + 1
  /\ UNCHANGED <<options, scripts, gulp, fs, api, nAdd, nSet, optionsLocked, tasks>>

NextMaker == LoadMaker \/ TaskMaker \/ ConfigMaker \/ RunGlobalMaker

SpecMaker == InitMaker /\ [][NextMaker]_vars

ScriptOf(list, name) == list[FindScript(list, name)]

\* the id the naming rule gives the i-th accepted config of a job definition
NamedId(data, i) ==
  LET config == data.normalizedConfigs[i]
  IN IF config.name.t = "string"
     THEN data.name \o <<"_">> \o trim(config.name.v)
     ELSE IF Len(data.normalizedConfigs) > 1
          THEN data.name \o <<"_">> \o numToString(i)
          ELSE data.name

\* C1: for a job definition named N, defineTasksForConfig registers the build
\* job of every accepted config under build prefix + id and its watch job (when
\* it has a watch list) under watch prefix + id, where id is N_<name> for a
\* config with a string name (trimmed), else N_<i> (i the 1-based position)
\* when the definition holds more than one accepted config, else N; after an
\* add call that registered tasks these ids are known to gulp.
C1_JobIds ==
  \A k \in DOMAIN scripts :
    LET data == scripts[k]
        calls == tasksForConfig(data, options, 0)
    IN /\ \A i \in DOMAIN data.normalizedConfigs :
            /\ \E c \in DOMAIN calls :
                 /\ calls[c].kind = "build" /\ calls[c].idx = i
                 /\ calls[c].id = options.prefix.build \o NamedId(data, i)
            /\ hasWatch(data.normalizedConfigs[i]) <=>
                 \E c \in DOMAIN calls :
                   /\ calls[c].kind = "watch" /\ calls[c].idx = i
                   /\ calls[c].id = options.prefix.watch \o NamedId(data, i)
            /\ (last.op = "add" /\ last.reached /\ last.name = data.name) =>
                 /\ options.prefix.build \o NamedId(data, i) \in TaskIds(gulp)
                 /\ hasWatch(data.normalizedConfigs[i]) =>
                      options.prefix.watch \o NamedId(data, i) \in TaskIds(gulp)
       /\ \A c \in DOMAIN calls :
            /\ calls[c].idx \in DOMAIN data.normalizedConfigs
            /\ calls[c].owner = data.name

C1_Witness ==
  /\ last.op = "add" /\ last.reached
  /\ \E k \in DOMAIN scripts :
       /\ scripts[k].name = last.name
       /\ Len(scripts[k].normalizedConfigs) > 1
       /\ \E i, j \in DOMAIN scripts[k].normalizedConfigs :
            /\ scripts[k].normalizedConfigs[i].name.t = "string"
            /\ scripts[k].normalizedConfigs[j].name.t # "string"
            /\ hasWatch(scripts[k].normalizedConfigs[j])

\* the names of the configured groups
GroupNames(opts) ==
  {groupName(opts.groups[i].key) :
     i \in {j \in DOMAIN opts.groups : opts.groups[j].value.t # "null"}}

\* C2: after an add call, the children computed for a predicate-based group
\* contain neither that group's own name nor the name of another configured
\* group.
C2_NoGroupAmongChildren ==
  (last.op = "add" /\ last.reached) =>
    \A i \in DOMAIN options.groups :
      options.groups[i].value.t = "function" =>
        \A t \in Range(gulp) :
          t.id = groupName(options.groups[i].key) =>
            Range(t.children) \cap GroupNames(options) = {}

DefaultGroups(opts) ==
  /\ \E i \in DOMAIN opts.groups :
       /\ opts.groups[i].key = sBuild
       /\ opts.groups[i].value \in {Fn("notWatch"), Fn("isBuild")}
  /\ \E i \in DOMAIN opts.groups :
       opts.groups[i].key = sWatch /\ opts.groups[i].value = Fn("isWatch")

ChildOf(g, id, group) ==
  \E t \in Range(g) : t.id = group /\ t.kind = "group" /\ id \in Range(t.children)

\* C3: as soon as an add call returns, every build job registered so far is a
\* child of the default 'build' group and every watch job registered so far
\* is a child of the default 'watch' group.
C3_JobsInDefaultGroups ==
  (last.op = "add" /\ DefaultGroups(options)) =>
    \A t \in Range(gulp) :
      /\ t.kind = "build" => ChildOf(gulp, t.id, sBuild)
      /\ t.kind = "watch" => ChildOf(gulp, t.id, sWatch)

SameContent(a, b) ==
  /\ Len(a) = Len(b)
  /\ \A k \in DOMAIN a :
       /\ a[k].normalizedConfigs = b[k].normalizedConfigs
       /\ a[k].sources = b[k].sources

RepeatedAdd == nAdd' = nAdd + 1 /\ last'.again

BadDestOrSrc(merged) ==
  \/ NotNullish(merged.dest) /\ merged.dest.t \notin {"string", "function"}
  \/ /\ NotNullish(merged.src)
     /\ ~ \E x \in Range(IF isArray(merged.src) THEN merged.src.v ELSE <<merged.src>>) :
            x.t = "string" /\ trim(x.v) # <<>>

C10_SetAfterAddRejected ==
  [][(nSet' = nSet + 1 /\ nAdd > 0) =>
       (options' = options /\ last'.outcome # "ok")]_vars

-----------------------------------------------------------------------------
(* Properties of the add/options/done API *)

\* the positions of the configs of a job definition that fail validateConfig
InvalidConfigs(data) ==
  {i \in DOMAIN data.configs :
     invalidProps(normalizeSrc(assign(data.callback.defaultConfig, data.configs[i])))
       # <<>>}

\* the last call was an add that went as far as validating its configs
ValidatedByLastAdd ==
  /\ api = "index" /\ last.op = "add" /\ last.outcome \in {"ok", "thrown"}
  /\ scripts # <<>> /\ scripts[Len(scripts)].name = last.name
  /\ scripts[Len(scripts)].configs = toObjectArray(last.cfg)

RECURSIVE TotalErrors(_)
TotalErrors(list) ==
  IF list = <<>> THEN 0 ELSE Len(Head(list).errors) + TotalErrors(Tail(list))

\* C6: in non-strict mode an add call given a config that fails validation
\* does not throw; it returns normally, the invalid config gets no job (it is
\* not among the normalizedConfigs) and one validation error per invalid
\* config is recorded in the error list of the job definition.
C6_InvalidConfigRecorded ==
  (ValidatedByLastAdd /\ ~options.strict
     /\ InvalidConfigs(scripts[Len(scripts)]) # {}) =>
    LET data == scripts[Len(scripts)]
    IN /\ last.outcome = "ok"
       /\ Len(data.errors) = Cardinality(InvalidConfigs(data))
       /\ Len(data.normalizedConfigs)
            = Len(data.configs) - Cardinality(InvalidConfigs(data))

\* C7: in strict mode an add call defers no error: whatever goes wrong is
\* thrown, and the error lists of the job definitions stay as they were.
C7_StrictNeverDefers ==
  [][(api = "index" /\ options.strict /\ nAdd' = nAdd + 1) =>
       /\ last'.outcome \in {"ok", "thrown"}
       /\ TotalErrors(scripts') = TotalErrors(scripts)]_vars

\* C8: the consolidated report is emitted at most once per process: a call of
\* showLoadingErrors (from a watch job or from the exit listener) made after
\* a report was emitted emits nothing, and a report is emitted only when some
\* job definition has a missing source or a recorded error at that moment.
C8_ReportAtMostOnce ==
  /\ [](api = "index" => (reports <= 1 /\ (shown <=> reports = 1)))
  /\ [][api = "index" =>
          /\ shown => (shown' /\ reports' = reports)
          /\ reports' # reports =>
               /\ reports' = reports + 1
               /\ failedTasks(scripts, fs) # <<>>
               /\ last'.op \in {"watch", "exit"}
          /\ (last'.op \in {"watch", "exit"} /\ last' # last /\ reports' = reports)
               => last'.outcome = "ok"]_vars

\* a watch job or the exit listener ran after the report was emitted, while a
\* job definition still had a problem, and emitted nothing
C8_Witness ==
  /\ api = "index" /\ shown /\ reports = 1 /\ nRun = 2
  /\ last.op \in {"watch", "exit"} /\ last.outcome = "ok"
  /\ failedTasks(scripts, fs) # <<>>

-----------------------------------------------------------------------------
(* Properties of the load/task/conf API *)

\* C9: once load or task has been called, whatever its arguments and its
\* outcome, a conf call changes no option and is reported as an error.
C9_ConfLockedAfterLoadOrTask ==
  [][(api = "load" /\ nAdd > 0 /\ nSet' = nSet + 1) =>
       (options' = options /\ last'.outcome = "notified")]_vars

\* the add call of this step was given a function as its callback
AddOfFunction == nAdd' = nAdd + 1 /\ last'.op = "add" /\ last'.cb.t = "function"

\* the add call of this step was refused and changed nothing
AddRefused ==
  /\ last'.outcome \in {"thrown", "logged"}
  /\ scripts' = scripts
  /\ gulp' = gulp

\* C11: an add call whose callback has the name of a job definition already
\* registered, but is another function, is refused with an error and leaves
\* the definitions and the registered jobs as they were.
C11_RedeclareRejected ==
  [][(/\ api = "add"
      /\ AddOfFunction
      /\ \E k \in DOMAIN scripts :
           /\ scripts[k].name = callbackName(last'.cb.v)
           /\ scripts[k].callback.id # last'.cb.v.id)
       => AddRefused]_vars

\* C12: an add call given a function with no displayName string and an empty
\* name is refused with an error, and no job definition with an empty name
\* is ever held.
C12_AnonymousRejected ==
  /\ [](api = "add" => \A k \in DOMAIN scripts : scripts[k].name # <<>>)
  /\ [][(/\ api = "add"
         /\ AddOfFunction
         /\ last'.cb.v.displayName.t # "string"
         /\ last'.cb.v.name \in {Undef, Str(<<>>)})
          => AddRefused]_vars

\* C13: a build or watch job, once registered, is never taken over by another
\* job definition: the id stays registered for the definition that owns it.
C13_JobIdsUnique ==
  [][api = "add" =>
       \A i \in DOMAIN gulp :
         gulp[i].kind \in {"build", "watch"} =>
           \E j \in DOMAIN gulp' :
             gulp'[j].id = gulp[i].id /\ gulp'[j].owner = gulp[i].owner]_vars

\* the groups of the options that are not disabled, by task name
EnabledGroups(opts) ==
  {groupName(opts.groups[i].key) :
     i \in {j \in DOMAIN opts.groups :
              isArray(opts.groups[j].value) \/ opts.groups[j].value.t = "function"}}

\* gulp has just run the task of a group without children
EmptyGroupRun == api = "index" /\ nRun' = nRun + 1 /\ last'.op = "group"

DisabledGroups(opts) ==
  {groupName(opts.groups[i].key) :
     i \in {j \in DOMAIN opts.groups : opts.groups[j].value = Null}}

\* C15: after an add call that ran to its end, gulp holds no task under the
\* name of a group that set has disabled with a falsy value.
C15_DisabledGroupAbsent ==
  [][(api = "add" /\ nAdd' = nAdd + 1 /\ last'.reached) =>
       \A n \in DisabledGroups(options') \ EnabledGroups(options') :
         n \notin TaskIds(gulp')]_vars

-----------------------------------------------------------------------------
(* Properties of the normalization of one config *)

\* the elements of a value that is an array, or the value alone
Items(x) == IF isArray(x) THEN x.v ELSE <<x>>

\* t is s without its leading and trailing whitespace, and is not empty
IsTrimOf(t, s) ==
  /\ t # <<>>
  /\ Head(t) \notin Whitespace
  /\ t[Len(t)] \notin Whitespace
  /\ \E a \in 0..Len(s) :
       /\ a + Len(t) <= Len(s)
       /\ SubSeq(s, a + 1, a + Len(t)) = t
       /\ \A i \in 1..Len(s) : (i <= a \/ i > a + Len(t)) => s[i] \in Whitespace

\* the positions of x that hold a string that is not blank
NonBlankAt(x) ==
  {i \in DOMAIN Items(x) :
     /\ Items(x)[i].t = "string"
     /\ \E c \in Range(Items(x)[i].v) : c \notin Whitespace}

\* the first position of x whose string, once trimmed, is t
FirstAt(t, x) ==
  CHOOSE i \in NonBlankAt(x) :
    /\ IsTrimOf(t, Items(x)[i].v)
    /\ \A j \in NonBlankAt(x) : IsTrimOf(t, Items(x)[j].v) => i <= j

\* r is the list of the trimmed non-blank strings of x, in first-seen order
\* and without duplicates
IsUniqueTrimmedList(r, x) ==
  /\ isArray(r)
  /\ \A k \in DOMAIN r.v :
       /\ r.v[k].t = "string"
       /\ \E i \in NonBlankAt(x) : IsTrimOf(r.v[k].v, Items(x)[i].v)
  /\ \A i \in NonBlankAt(x) :
       \E k \in DOMAIN r.v : IsTrimOf(r.v[k].v, Items(x)[i].v)
  /\ \A k, l \in DOMAIN r.v :
       k < l => /\ r.v[k] # r.v[l]
                /\ FirstAt(r.v[k].v, x) < FirstAt(r.v[l].v, x)

\* the config normalizeConfig works on: the last config given, merged with
\* the baseConfig of the callback
MergedLast == assign(scripts[1].callback.baseConfig, last.cfg)

\* normalizeConfig was applied to a config with a non-blank string in src and
\* a dest that is a string or a function
NormalizedGoodSrcAndDest ==
  /\ api = "normalize"
  /\ last.op = "normalizeConfig"
  /\ NonBlankAt(MergedLast.src) # {}
  /\ MergedLast.dest.t \in {"string", "function"}

\* the watch values normalizeConfig accepts
WatchAcceptable(watch) ==
  watch = Bool(TRUE) \/ ~Truthy(watch) \/ NonBlankAt(watch) # {}

\* normalizeConfig kept the config, with the src expected
KeptWithUniqueTrimmedSrc ==
  /\ last.outcome = "ok"
  /\ Len(scripts[1].normalizedConfigs) = 1
  /\ IsUniqueTrimmedList(scripts[1].normalizedConfigs[1].src, MergedLast.src)

\* C16: every config whose src holds a non-blank string and whose dest is a
\* string or a function is normalized with success, and its src becomes the
\* list of the trimmed non-blank strings given, in first-seen order and
\* without duplicates.
C16_SrcNormalized == NormalizedGoodSrcAndDest => KeptWithUniqueTrimmedSrc

\* C16, as amended: the same, for the configs whose watch is also acceptable
\* (true, a falsy value, or a value holding a non-blank string).
C16_SrcNormalizedGivenWatch ==
  (NormalizedGoodSrcAndDest /\ WatchAcceptable(MergedLast.watch))
    => KeptWithUniqueTrimmedSrc

C16_Witness ==
  /\ NormalizedGoodSrcAndDest
  /\ last.cfg.v.src = Arr(<<Str(<<"y">>), Str(<<" ">>), Str(<<"x">>), Str(<<"y", " ">>)>>)
  /\ last.cfg.v.watch = Str(<<"y", " ">>)
  /\ last.outcome = "ok"
  /\ scripts[1].normalizedConfigs[1].src = Arr(<<Str(<<"y">>), Str(<<"x">>)>>)

\* a config asking for watch: true went through the normalization named op
\* and was kept
KeptWatchTrue(op, base) ==
  /\ api = "normalize"
  /\ last.op = op
  /\ last.outcome = "ok"
  /\ assign(base, last.cfg).watch = Bool(TRUE)

\* the watch of the config kept is a list, and is the src of that config
WatchIsFinalSrc ==
  /\ isArray(scripts[1].normalizedConfigs[1].watch)
  /\ isArray(scripts[1].normalizedConfigs[1].src)
  /\ scripts[1].normalizedConfigs[1].watch = scripts[1].normalizedConfigs[1].src

\* C17: watch: true always normalizes to the list that is the final, trimmed
\* and de-duplicated src of the same config, and never stays the literal true.
C17_WatchTrueIsSrc ==
  /\ KeptWatchTrue("normalizeConfig", scripts[1].callback.baseConfig)
       => WatchIsFinalSrc
  /\ KeptWatchTrue("normalizeSrc", scripts[1].callback.defaultConfig)
       => WatchIsFinalSrc

\* C17, as amended: watch: true normalizes to the list that is the final src
\* of the same config whenever a src was given; normalizeConfig keeps a
\* config without src, and its watch then stays the literal true.
C17_WatchTrueIsSrcWhenGiven ==
  /\ KeptWatchTrue("normalizeConfig", scripts[1].callback.baseConfig) =>
       IF NotNullish(MergedLast.src)
       THEN WatchIsFinalSrc /\ IsUniqueTrimmedList(scripts[1].normalizedConfigs[1].watch,
                                                   MergedLast.src)
       ELSE scripts[1].normalizedConfigs[1].watch = Bool(TRUE)
  /\ KeptWatchTrue("normalizeSrc", scripts[1].callback.defaultConfig)
       => WatchIsFinalSrc

C17_Witness ==
  /\ KeptWatchTrue("normalizeConfig", scripts[1].callback.baseConfig)
  /\ last.cfg.v.src = Arr(<<Str(<<" ", "x">>), Str(<<"x">>), Num(1), Str(<<"y">>)>>)
  /\ scripts[1].normalizedConfigs[1].watch = Arr(<<Str(<<"x">>), Str(<<"y">>)>>)

-----------------------------------------------------------------------------
(* Properties of info() *)

\* C18: writing to any part of the snapshot info() returned changes neither
\* the options, nor the scripts, nor the task list the library works with.
C18_SnapshotIsolated ==
  [][(api = "info" /\ nRun' = nRun + 1) =>
       UNCHANGED <<options, scripts, tasks, optionsLocked, shown>>]_vars

\* C19: in strict mode the consolidated report is never built or emitted,
\* neither by the exit listener nor when a watch task starts.
C19_NoReportInStrictMode ==
  [][(api = "index" /\ options.strict) =>
       (reports' = reports /\ shown' = shown)]_vars

\* a load or task call of this step, made in strict mode, saved a script one
\* of whose source patterns matches no file
StrictCallWithMissingSource ==
  /\ api = "load"
  /\ nAdd' = nAdd + 1
  /\ options.strict
  /\ \E i \in DOMAIN scripts' \ DOMAIN scripts :
       \E src \in Range(scripts'[i].sources) : src \notin fs

\* C20: in strict mode a source pattern that matches no file aborts the
\* registration call: the error is thrown and the call registers no build or
\* watch job.
C20_StrictMissingSourceAborts ==
  [][StrictCallWithMissingSource =>
       (last'.outcome = "thrown" /\ gulp' = gulp /\ tasks' = tasks)]_vars

\* the script of an entry saved by load or task is missing, fails to load or
\* exports something other than a function
ScriptProblem(info) ==
  /\ info.callback.t = "string"
  /\ \/ ~existsSync(info.callback.v)
     \/ ~requireScript(info.callback.v).ok
     \/ requireScript(info.callback.v).value.t # "function"

\* the keys of the last load call whose script exports a function
LoadedKeys ==
  IF last.op = "load" /\ last.cb.t = "string" /\ last.cfg.t = "object"
     /\ existsSync(absolutePath(last.cb.v))
  THEN { e.key : e \in { x \in Range(last.cfg.v) :
           requireScript(absolutePath(last.cb.v) \o <<"/">> \o x.key
                         \o <<".", "j", "s">>).value.t = "function" } }
  ELSE {}

\* C21: in non-strict mode load never throws because of one task's script:
\* a script that is missing, fails to load or does not export a function is
\* saved with a problem of its own (exists false, or an entry in its error
\* list), and every other task of the same load call is still registered.
C21_ScriptProblemsRecorded ==
  (api = "load" /\ ~options.strict) =>
    /\ last.outcome # "thrown"
    /\ \A i \in DOMAIN scripts :
         ScriptProblem(scripts[i]) =>
           (scripts[i].exists = Bool(FALSE) \/ scripts[i].errors # <<>>)
    /\ \A key \in LoadedKeys :
         /\ \E i \in DOMAIN scripts : scripts[i].name = key
         /\ sBuildDash \o key \in TaskIds(gulp)

-----------------------------------------------------------------------------
(* Properties of strToBool *)

\* c is the character d in lower or upper case
SameLetter(c, d) == c = d \/ (c \in DOMAIN LowerOf /\ LowerOf[c] = d)

\* the text, without the whitespace around it and whatever its letter case,
\* is one of the words
Means(text, words) ==
  \E w \in words : \E a \in 0..Len(text) :
    /\ a + Len(w) <= Len(text)
    /\ \A i \in 1..Len(text) :
         IF i > a /\ i <= a + Len(w) THEN SameLetter(text[i], w[i - a])
         ELSE text[i] \in Whitespace

TrueWords == { <<"1">>, <<"t", "r", "u", "e">>, <<"o", "n">>, <<"y", "e", "s">> }

FalseWords ==
  { <<"0">>, <<"f", "a", "l", "s", "e">>, <<"o", "f", "f">>, <<"n", "o">> }

\* C22: strToBool returns true exactly when the trimmed, lower-cased input is
\* one of '1', 'true', 'on', 'yes'; every other input gives false, unless a
\* default of true is supplied, and then only '0', 'false', 'off', 'no' give
\* false.
C22_StrToBool ==
  (api = "bool" /\ last.op = "strToBool") =>
    IF last.cfg = Bool(TRUE)
    THEN last.reached <=> ~Means(String(last.cb), FalseWords)
    ELSE last.reached <=> Means(String(last.cb), TrueWords)

C22_Witness ==
  /\ api = "bool"
  /\ last.op = "strToBool"
  /\ last.cb = Str(<<"\t", " ", "Y", "e", "s", " ">>)
  /\ last.cfg = Undef
  /\ last.reached

-----------------------------------------------------------------------------
(* Further properties of the add/set API *)

\* the ids of the build jobs the task engine holds for a job definition
BuildJobsOf(g, name) ==
  { g[j].id : j \in { x \in DOMAIN g : g[x].kind = "build" /\ g[x].owner = name } }

\* the build ids derived from the current normalizedConfigs of a definition
DerivedBuildIds(data, opts) ==
  { opts.prefix.build \o taskIdOf(data.name, data.normalizedConfigs, i - 1) :
      i \in DOMAIN data.normalizedConfigs }

\* C23: after any sequence of add calls, the build jobs the task engine holds
\* for a job definition are exactly the ids derived from its current
\* normalizedConfigs: no job stays registered under an id derived by an
\* earlier call.
C23_NoStaleJob ==
  (api = "add" /\ nSet = 0) =>
    \A k \in DOMAIN scripts :
      BuildJobsOf(gulp, scripts[k].name) = DerivedBuildIds(scripts[k], options)

\* C24: in non-strict mode, after any sequence of add calls, every raw config
\* stored in a job definition is either present in its normalizedConfigs or
\* accounted for by exactly one entry of its error list.
C24_ConfigsAccounted ==
  (api = "add" /\ ~options.strict) =>
    \A k \in DOMAIN scripts :
      Len(scripts[k].configs)
        = Len(scripts[k].normalizedConfigs) + Len(scripts[k].errors)

C24_Witness ==
  /\ api = "add"
  /\ ~options.strict
  /\ nAdd = 2
  /\ \E k \in DOMAIN scripts :
       /\ Len(scripts[k].errors) >= 2
       /\ Len(scripts[k].normalizedConfigs) >= 1
       /\ Len(scripts[k].configs) >= 3

-----------------------------------------------------------------------------
(* Properties of the global tasks of the load/task API *)

\* the task called id, when it is a group, depends only on jobs of that kind
OnlyJobs(g, id, kind) ==
  \A i \in DOMAIN g :
    (g[i].kind = "group" /\ Str(g[i].id) = id) =>
      \A c \in Range(g[i].children) :
        \E j \in DOMAIN g : g[j].id = c /\ g[j].kind = kind

\* C25: after any number of load and task calls, the dependencies of the
\* global build task are individual build jobs only and those of the global
\* watch task individual watch jobs only: a global task never lists itself,
\* the other global task or 'default'.
C25_GlobalTasksListJobsOnly ==
  api = "maker" =>
    /\ OnlyJobs(gulp, options.buildTask, "build")
    /\ OnlyJobs(gulp, options.watchTask, "watch")

\* C26: with the load/task API in non-strict mode the consolidated report is
\* emitted at most once per process: once the errorsShown flag is set,
\* neither a later run of the global watch task nor the exit listener emits
\* the report again.
C26_ReportOnceLoad ==
  [][(api = "load" /\ ~options.strict /\ shown) => reports' = reports]_vars

\* the src patterns of all the normalizedConfigs of a definition, in order
AllSrc(data) ==
  LET all == SelectSeq(srcOf(data.normalizedConfigs), LAMBDA x : x.t = "string")
  IN [i \in DOMAIN all |-> all[i].v]

\* the position at which x is first seen in the list
FirstSeen(list, x) ==
  CHOOSE n \in DOMAIN list : list[n] = x /\ \A m \in 1..(n - 1) : list[m] # x

\* r holds every element of the list once, in first-seen order
IsFirstSeenUnion(r, list) ==
  /\ Range(r) = Range(list)
  /\ \A i, j \in DOMAIN r :
       i < j => /\ r[i] # r[j]
                /\ FirstSeen(list, r[i]) < FirstSeen(list, r[j])

\* C27: after any sequence of add calls, the sources of a job definition
\* contain no duplicate and are the union of the src lists of all its
\* normalizedConfigs, in first-seen order.
C27_SourcesAreUnionOfSrc ==
  api = "add" =>
    \A k \in DOMAIN scripts : IsFirstSeenUnion(scripts[k].sources, AllSrc(scripts[k]))

C27_Witness ==
  /\ api = "add"
  /\ nAdd = 2
  /\ \E k \in DOMAIN scripts :
       /\ Len(scripts[k].normalizedConfigs) >= 2
       /\ Len(scripts[k].sources) = 2
       /\ Len(AllSrc(scripts[k])) >= 3
       /\ AllSrc(scripts[k])[1] # AllSrc(scripts[k])[2]

\* C28: after any sequence of add calls, successful, rejected or repeated,
\* the registry of job definitions holds at most one entry per callback name.
C28_OneDefinitionPerName ==
  api \in {"add", "index"} =>
    \A i, j \in DOMAIN scripts : scripts[i].name = scripts[j].name => i = j

C28_Witness ==
  /\ api = "add"
  /\ nAdd = 2
  /\ last.outcome = "ok"
  /\ Len(scripts) = 1
  /\ Len(scripts[1].configs) >= 2

\* the add call of this step ends with a usage error: no usable callback, or
\* no config object
AddUsageError ==
  /\ api = "add"
  /\ nAdd' = nAdd + 1
  /\ last'.op = "add"
  /\ ~getTaskCallback(last'.cb).ok \/ toObjectArray(last'.cfg) = <<>>

\* C29: an add call rejected with a usage error leaves the registry
\* unchanged: no job definition is created or modified and no job or group
\* is registered or re-registered by that call.
C29_UsageErrorChangesNothing ==
  [][AddUsageError =>
       (last'.outcome \in {"thrown", "logged"} /\ scripts' = scripts /\ gulp' = gulp)]_vars

-----------------------------------------------------------------------------
(* Properties of normalizeUserConfig *)

\* the src and watch properties of a config object, or of each object of an
\* array of configs
SrcAndWatch(x) ==
  [i \in DOMAIN Items(x) |->
    IF Items(x)[i].t = "object"
    THEN <<Items(x)[i].v.src, Items(x)[i].v.watch>> ELSE <<>>]

\* C30: normalizeSrc returns a copy and does not mutate the config object
\* supplied by the user: after the call, the src and watch properties of the
\* caller's config objects are the values the caller put there.
C30_UserConfigNotMutated ==
  (api = "normalize" /\ last.op = "normalizeUserConfig") =>
    SrcAndWatch(last.cb) = SrcAndWatch(last.cfg)

====
